---- MODULE Spec2Model ----
(***************************************************************************)
(* Pipeline run orchestration of the supplier-risk dashboard:              *)
(*   frontend/lib/airflow.ts            triggerPredictionDag               *)
(*   app/api/airflow/trigger            POST (trigger route)               *)
(*   app/api/airflow/dag-run/[runId]    GET  (dag-run status route)        *)
(*   frontend/app/upload/page.tsx       triggerDag, pollDagStatus, poll    *)
(*                                                                         *)
(* Text is a tuple of one-character strings, so that String.includes and   *)
(* the lower-casing used by the claims are computed character by character.*)
(* An absent JSON field and an empty string are both the empty tuple: the  *)
(* code only ever tests these fields for truthiness.                       *)
(***************************************************************************)
EXTENDS Integers, Sequences, FiniteSets, TLC

\* ---------------------------------------------------------------- bounds
MaxRuns == 2

\* ------------------------------------------------------ program constants
maxAttempts == 60
InitialDelay == 2000
PollInterval == 5000

\* -------------------------------------------------------------------- text
Empty == << >>

UpperLetters == << "A", "B", "C", "D", "E", "F", "G", "H", "I", "J", "K", "L", "M", "N", "O", "P", "Q", "R", "S", "T", "U", "V", "W", "X", "Y", "Z" >>
LowerLetters == << "a", "b", "c", "d", "e", "f", "g", "h", "i", "j", "k", "l", "m", "n", "o", "p", "q", "r", "s", "t", "u", "v", "w", "x", "y", "z" >>

Lower(c) ==
  IF \E k \in 1..26 : UpperLetters[k] = c
  THEN LowerLetters[CHOOSE k \in 1..26 : UpperLetters[k] = c]
  ELSE c

toLowerCase(s) == [i \in 1..Len(s) |-> Lower(s[i])]

\* String.prototype.includes: some window of s equals sub (case-sensitive)
includes(s, sub) ==
  \E i \in 0..(Len(s) - Len(sub)) :
    \A j \in 1..Len(sub) : s[i + j] = sub[j]

Digit(d) ==
  CASE d = 0 -> "0" [] d = 1 -> "1" [] d = 2 -> "2" [] d = 3 -> "3"
    [] d = 4 -> "4" [] d = 5 -> "5" [] d = 6 -> "6" [] d = 7 -> "7"
    [] d = 8 -> "8" [] OTHER -> "9"

RECURSIVE NumberToText(_)
NumberToText(n) ==
  IF n < 10 THEN << Digit(n) >>
  ELSE Append(NumberToText(n \div 10), Digit(n % 10))

T_HTTP == << "H", "T", "T", "P", " " >>
T_NoNewRowsToPredict == << "N", "o", " ", "n", "e", "w", " ", "r", "o", "w", "s", " ", "t", "o", " ", "p", "r", "e", "d", "i", "c", "t" >>
T_noNewRows == << "n", "o", " ", "n", "e", "w", " ", "r", "o", "w", "s" >>
\* messages the code itself produces
T_NoOpMessage == << "N", "o", " ", "n", "e", "w", " ", "r", "o", "w", "s", " ", "t", "o", " ", "p", "r", "e", "d", "i", "c", "t", " ", "(", "I", "N", "F", "O", ":", " ", "a", "l", "l", " ", "r", "o", "w", "s", " ", "a", "l", "r", "e", "a", "d", "y", " ", "p", "r", "o", "c", "e", "s", "s", "e", "d", ")" >>
T_Triggered == << "A", "i", "r", "f", "l", "o", "w", " ", "D", "A", "G", " ", "t", "r", "i", "g", "g", "e", "r", "e", "d", " ", "s", "u", "c", "c", "e", "s", "s", "f", "u", "l", "l", "y", "!" >>
T_FailedToTrigger == << "F", "a", "i", "l", "e", "d", " ", "t", "o", " ", "t", "r", "i", "g", "g", "e", "r", " ", "D", "A", "G" >>
T_UnknownError == << "U", "n", "k", "n", "o", "w", "n", " ", "e", "r", "r", "o", "r" >>
T_DagRunFailed == << "D", "A", "G", " ", "r", "u", "n", " ", "f", "a", "i", "l", "e", "d", ".", " ", "C", "h", "e", "c", "k", " ", "A", "i", "r", "f", "l", "o", "w", " ", "f", "o", "r", " ", "d", "e", "t", "a", "i", "l", "s", "." >>
T_PollingTimeout == << "P", "o", "l", "l", "i", "n", "g", " ", "t", "i", "m", "e", "o", "u", "t", ".", " ", "D", "A", "G", " ", "m", "a", "y", " ", "s", "t", "i", "l", "l", " ", "b", "e", " ", "r", "u", "n", "n", "i", "n", "g", ".", " ", "C", "h", "e", "c", "k", " ", "A", "i", "r", "f", "l", "o", "w", "." >>
T_FailedToFetchStatus == << "F", "a", "i", "l", "e", "d", " ", "t", "o", " ", "f", "e", "t", "c", "h", " ", "D", "A", "G", " ", "s", "t", "a", "t", "u", "s", ".", " ", "C", "h", "e", "c", "k", " ", "A", "i", "r", "f", "l", "o", "w", "." >>
T_ErrorPolling == << "E", "r", "r", "o", "r", " ", "p", "o", "l", "l", "i", "n", "g", " ", "D", "A", "G", " ", "s", "t", "a", "t", "u", "s", "." >>
\* texts the environment answers with
T_FetchFailed == << "f", "e", "t", "c", "h", " ", "f", "a", "i", "l", "e", "d" >>
T_TypeError == << "T", "y", "p", "e", "E", "r", "r", "o", "r", ":", " " >>
T_UpperNoNewRows == << "N", "O", " ", "N", "E", "W", " ", "R", "O", "W", "S" >>
T_TitleNoNewRows == << "D", "A", "G", ":", " ", "N", "o", " ", "N", "e", "w", " ", "R", "o", "w", "s" >>
T_InnerNoNewRows == << "d", "a", "g", ":", " ", "n", "o", " ", "n", "e", "w", " ", "r", "o", "w", "s", "!" >>
T_NotFound == << "D", "A", "G", " ", "n", "o", "t", " ", "f", "o", "u", "n", "d" >>
T_Denied == << "d", "e", "n", "i", "e", "d" >>

\* ------------------------------------------------- orchestrator, trigger
\* JSON payload of a trigger answer; a field that is absent is Empty / NoRunId
NoRunId == ""
RunIds == { "manual__1" }
NoState == ""

Payload(detail, error, id) ==
  [detail |-> detail, error |-> error, dag_run_id |-> id, state |-> NoState]
EmptyPayload == Payload(Empty, Empty, NoRunId)

DetailTexts ==
  { Empty, T_NoNewRowsToPredict, T_InnerNoNewRows, T_UpperNoNewRows,
    T_TitleNoNewRows, T_NotFound }
ErrorTexts == { Empty, T_noNewRows, T_Denied }
OkStatuses == { 200, 201 }
ErrorStatuses == { 400, 500 }

\* what the orchestrator can answer to POST .../dagRuns:
\*   net  = "error": fetch itself throws with errmsg (no status, no body)
\*   kind = "empty": no body; "malformed": body is not JSON; "json": parsed
\* a 2xx answer is the created run (or an object without a run id), a
\* non-2xx answer an error object with any of the texts above
TriggerAnswers ==
  { [net |-> "error", status |-> 0, kind |-> "empty", json |-> EmptyPayload,
     errmsg |-> T_FetchFailed] }
  \cup
  { [net |-> "ok", status |-> st, kind |-> k, json |-> EmptyPayload,
     errmsg |-> Empty] :
       st \in OkStatuses \cup ErrorStatuses, k \in { "empty", "malformed" } }
  \cup
  { [net |-> "ok", status |-> st, kind |-> "json",
     json |-> Payload(Empty, Empty, id), errmsg |-> Empty] :
       st \in OkStatuses, id \in RunIds \cup { NoRunId } }
  \cup
  { [net |-> "ok", status |-> st, kind |-> "json",
     json |-> Payload(d, e, NoRunId), errmsg |-> Empty] :
       st \in ErrorStatuses, d \in DetailTexts, e \in ErrorTexts }

ResponseOk(status) == status >= 200 /\ status <= 299

Outcome(ok, msg, details) ==
  [success |-> ok, message |-> msg, details |-> details]

\* JS a || b on texts: the first truthy (non-empty) operand
OrElse(a, b) == IF a # Empty THEN a ELSE b

\* let data = {}; replaced only when the body is non-empty and JSON.parse
\* succeeds ("Not JSON, ignore")
ParsedBodyDropped(ans) == EmptyPayload

ParsedBody(ans) == IF ans.kind = "json" THEN ans.json ELSE EmptyPayload

\* data?.detail || data?.error || `HTTP ${response.status}`
ErrorMsgErrorFirst(data, status) ==
  OrElse(data.error, OrElse(data.detail, T_HTTP \o NumberToText(status)))

ErrorMsg(data, status) ==
  OrElse(data.detail, OrElse(data.error, T_HTTP \o NumberToText(status)))

IsNoNewRows(errorMsg) ==
  includes(errorMsg, T_NoNewRowsToPredict) \/ includes(errorMsg, T_noNewRows)

\* the outer catch: err.message, details = { error: String(err) }
TransportFailureUnknown(ans) ==
  Outcome(FALSE, T_UnknownError,
          Payload(Empty, T_TypeError \o ans.errmsg, NoRunId))

TransportFailure(ans) ==
  Outcome(FALSE, ans.errmsg,
          Payload(Empty, T_TypeError \o ans.errmsg, NoRunId))

triggerPredictionDag(ans) ==
  IF ans.net = "error"
  THEN TransportFailure(ans)
  ELSE
    LET data == ParsedBody(ans) IN
    IF ~ResponseOk(ans.status)
    THEN
      LET errorMsg == ErrorMsg(data, ans.status) IN
      IF IsNoNewRows(errorMsg)
      THEN Outcome(TRUE, T_NoOpMessage, data)
      ELSE Outcome(FALSE, errorMsg, data)
    ELSE Outcome(TRUE, T_Triggered, data)

\* trigger route POST: 200 {success, message, details} or 500 {error, details}
TriggerRoute(result) ==
  IF result.success
  THEN [status |-> 200, success |-> TRUE, message |-> result.message,
        error |-> Empty, details |-> result.details]
  ELSE [status |-> 500, success |-> FALSE, message |-> Empty,
        error |-> result.message, details |-> result.details]

\* ----------------------------------------------- dag-run status route GET
RunStates == { "queued", "running", "success", "failed" }
OtherState == "up_for_retry"

\* what the orchestrator can answer to GET .../dagRuns/<runId>
StatusAnswers ==
  { [net |-> "error", status |-> 0, kind |-> "empty", state |-> NoState] }
  \cup
  { [net |-> "ok", status |-> st, kind |-> "text", state |-> NoState] :
      st \in { 404, 500 } }
  \cup
  { [net |-> "ok", status |-> 200, kind |-> "malformed", state |-> NoState] }
  \cup
  { [net |-> "ok", status |-> 200, kind |-> "json", state |-> s] :
      s \in RunStates \cup { OtherState } }

\* the route's JSON answer as the page reads it: thrown = the page's own
\* fetch or res.json() threw; success/hasData = data.success, data.data
StatusReply(thrown, status, success, state) ==
  [thrown |-> thrown, status |-> status, success |-> success,
   hasData |-> success, state |-> state]

DagRunRoute(ans) ==
  IF ans.net = "error" THEN StatusReply(FALSE, 500, FALSE, NoState)
  ELSE IF ~ResponseOk(ans.status)
       THEN StatusReply(FALSE, ans.status, FALSE, NoState)
  ELSE IF ans.kind # "json" THEN StatusReply(FALSE, 500, FALSE, NoState)
  ELSE StatusReply(FALSE, 200, TRUE, ans.state)

NoReply == StatusReply(FALSE, 0, FALSE, NoState)
PageFetchThrows == StatusReply(TRUE, 0, FALSE, NoState)

\* --------------------------------------------------------- upload page
\* useState values of UploadPage that the run tracking uses: the value last
\* passed to each setter (the calls are made whether or not the page is
\* still mounted)
VARIABLE page
\* the page component is mounted
VARIABLE mounted
\* number of triggerDag calls made so far
VARIABLE nruns
\* per triggered run: where its handling stands, and a log of what its poll
\* loop did (status checks issued, replies handled, handlers called)
VARIABLE run
\* per run: the trigger request in flight
VARIABLE call
\* per run: the pollDagStatus closure (attempts, pending timer or fetch)
VARIABLE loop

\* ---- state of the executive overview (lib/queries.ts)
\* the rows of risk_prediction_history, in the order the store returns them
VARIABLE history
\* what getExecutiveOverview returned, NoOverview before it is called
VARIABLE overview

\* ---- state of the explanation ranker (lib/queries.ts, app/shap/page.tsx)
\* the latest predictions, each with the shap_values payload stored for it
VARIABLE explanations
\* what getLatest3ShapSummaries returned and what ShapPage ranked
VARIABLE shap

\* ---- state of the CSV upload route (api/supabase/upload-csv)
\* the upload request as parsed, and the response once it is answered
VARIABLE csv
\* the rows of supplier_risk_master
VARIABLE master

\* ---- state of the success follow-up (upload page, api/predictions/recent)
\* the clock, the follow-up of each run and recentPredictions of the page
VARIABLE recent

\* ---- state of the overview read by parallel queries (lib/queries.ts)
\* what each of the parallel queries of getExecutiveOverview has returned
VARIABLE reads

\* ---- state of the label classifiers (queries, pages, RiskBadge)
\* a predicted_risk label and the category each site gave it
VARIABLE labels

pageVars == << page, mounted, nruns, run, call, loop >>
overviewVars == << history, overview >>
shapVars == << explanations, shap >>
uploadVars == << csv, master >>
laterVars == << recent, reads, labels >>
libraryVars == << overviewVars, shapVars, uploadVars, laterVars >>
vars == << pageVars, libraryVars >>

\* no query of the library has run
NoOverview == [called |-> FALSE]
NoShap == [summaries |-> [called |-> FALSE], detail |-> [called |-> FALSE]]

Runs == 1..MaxRuns

NoResult == [set |-> FALSE, success |-> FALSE, message |-> Empty,
             details |-> EmptyPayload]
Result(ok, msg, details) ==
  [set |-> TRUE, success |-> ok, message |-> msg, details |-> details]

\* details of the "DAG run failed" result: data.data of the status route
RunDetail(runId, state) ==
  [detail |-> Empty, error |-> Empty, dag_run_id |-> runId, state |-> state]

NoCall == [active |-> FALSE, answer |-> CHOOSE a \in TriggerAnswers : a.net = "error",
           outcome |-> Outcome(FALSE, Empty, EmptyPayload),
           http |-> TriggerRoute(Outcome(FALSE, Empty, EmptyPayload))]

NoLoop == [pc |-> "none", runId |-> NoRunId, delay |-> 0, attempts |-> 0,
           reply |-> NoReply]

\* checks: status fetches issued; handled: replies poll has dealt with;
\* sawFault / sawNonTerminal: some handled reply was a fault / was queued or
\* running; refetches, shown, failedCalls: calls of fetchRecentPredictions,
\* of setShowPredictions(true) and of the "DAG run failed" handler.
\* archived: a later trigger has been made and the counts of the ended loop
\* were dropped with its closure.
NewRun == [phase |-> "idle", archived |-> FALSE, checks |-> 0, handled |-> 0,
           sawFault |-> FALSE, sawNonTerminal |-> FALSE,
           refetches |-> 0, shown |-> 0, failedCalls |-> 0]

\* the log of a run whose loop has ended keeps its outcome and handler calls
Archive(log) ==
  [log EXCEPT !.archived = TRUE, !.checks = 0, !.handled = 0,
              !.sawFault = FALSE, !.sawNonTerminal = FALSE]

LoopEnded(r) ==
  /\ loop[r].pc = "none"
  /\ run[r].phase \notin { "idle", "triggering", "responded" }

InitialPage ==
  [triggering |-> FALSE, dagStatus |-> NoState, dagRunId |-> NoRunId,
   triggerResult |-> NoResult, showPredictions |-> FALSE]

\* the page as mounted, before any click
PageIdle ==
  /\ page = InitialPage
  /\ mounted = TRUE
  /\ nruns = 0
  /\ run = [r \in Runs |-> NewRun]
  /\ call = [r \in Runs |-> NoCall]
  /\ loop = [r \in Runs |-> NoLoop]

\* the dashboard queries are not part of the upload page
OverviewIdle == history = << >> /\ overview = NoOverview

ShapIdle == explanations = << >> /\ shap = NoShap

NoUpload == [posted |-> FALSE]
UploadIdle == csv = NoUpload /\ master = << >>

\* no follow-up has run, no parallel read is under way, no label classified
NoRecent == [started |-> FALSE]
NoReads == [started |-> FALSE]
NoLabels == [classified |-> FALSE]
LaterIdle == recent = NoRecent /\ reads = NoReads /\ labels = NoLabels

Init == PageIdle /\ OverviewIdle /\ ShapIdle /\ UploadIdle /\ LaterIdle

\* disabled={triggering || dagStatus === "running"}
ButtonDisabledWhileRunningOnly == page.dagStatus = "running"

ButtonDisabled == page.triggering \/ page.dagStatus = "running"

\* the status panel: rendered when dagStatus is set; its colour and its title
PanelTone(dagStatus) ==
  IF dagStatus = "queued" THEN "blue"
  ELSE IF dagStatus = "running" THEN "indigo"
  ELSE IF dagStatus = "success" THEN "emerald"
  ELSE "red"

PanelTitle(dagStatus) ==
  IF dagStatus = "queued" THEN "DAG Queued"
  ELSE IF dagStatus = "running" THEN "DAG Running"
  ELSE IF dagStatus = "success" THEN "DAG Completed"
  ELSE IF dagStatus = "failed" THEN "DAG Failed"
  ELSE ""

StatusPanel ==
  [shown |-> page.dagStatus # NoState,
   tone |-> PanelTone(page.dagStatus),
   title |-> PanelTitle(page.dagStatus)]

\* triggerDag, up to the await of the trigger request
triggerDag ==
  /\ mounted
  /\ ~ButtonDisabled
  /\ nruns < MaxRuns
  /\ nruns' = nruns + 1
  /\ page' = [page EXCEPT !.triggering = TRUE, !.triggerResult = NoResult,
                          !.dagRunId = NoRunId, !.dagStatus = "queued",
                          !.showPredictions = FALSE]
  /\ run' = [r \in Runs |->
               IF r = nruns + 1 THEN [run[r] EXCEPT !.phase = "triggering"]
               ELSE IF LoopEnded(r) THEN Archive(run[r])
               ELSE run[r]]
  /\ UNCHANGED << mounted, call, loop, libraryVars >>

\* the trigger route runs triggerPredictionDag against the orchestrator
TriggerRouteRuns(r, ans) ==
  /\ run[r].phase = "triggering"
  /\ LET result == triggerPredictionDag(ans) IN
       call' = [call EXCEPT ![r] = [active |-> TRUE, answer |-> ans,
                                    outcome |-> result,
                                    http |-> TriggerRoute(result)]]
  /\ run' = [run EXCEPT ![r].phase = "responded"]
  /\ UNCHANGED << page, mounted, nruns, loop, libraryVars >>

\* catch block of triggerDag
TriggerCatch(r, msg) ==
  /\ page' = [page EXCEPT !.dagStatus = NoState,
                          !.triggerResult = Result(FALSE, msg, EmptyPayload),
                          !.triggering = FALSE]
  /\ run' = [run EXCEPT ![r].phase = "TriggerFailed"]
  /\ call' = [call EXCEPT ![r] = NoCall]
  /\ UNCHANGED << mounted, nruns, loop, libraryVars >>

\* the page's fetch of the trigger route throws (or its body is not JSON)
TriggerFetchThrows(r) ==
  /\ run[r].phase = "triggering"
  /\ TriggerCatch(r, T_FetchFailed)

\* pollDagStatus(runId, triggerTime): setTimeout(poll, 2000)
pollDagStatusAtOnce(runId) ==
  [NoLoop EXCEPT !.pc = "scheduled", !.runId = runId, !.delay = 0]

pollDagStatus(runId) ==
  [NoLoop EXCEPT !.pc = "scheduled", !.runId = runId, !.delay = InitialDelay]

\* triggerDag, after the trigger route has answered
TriggerReturns(r) ==
  /\ run[r].phase = "responded"
  /\ LET data == call[r].http IN
       IF ~ResponseOk(data.status)
       THEN TriggerCatch(r, OrElse(data.error, T_FailedToTrigger))
       ELSE
         LET runId == data.details.dag_run_id IN
         /\ page' = [page EXCEPT
                       !.dagRunId = runId, !.dagStatus = "running",
                       !.triggerResult =
                          Result(TRUE, OrElse(data.message, T_Triggered),
                                 data.details)]
         /\ IF runId # NoRunId
            THEN /\ loop' = [loop EXCEPT ![r] = pollDagStatus(runId)]
                 /\ run' = [run EXCEPT ![r].phase = "polling"]
            ELSE /\ loop' = loop
                 /\ run' = [run EXCEPT ![r].phase = "NoRunId"]
         /\ call' = [call EXCEPT ![r] = NoCall]
         /\ UNCHANGED << mounted, nruns, libraryVars >>

\* ---------------------------------------------------- pollDagStatus.poll
\* attempts < maxAttempts
CanPollAgainInclusive(attempts) == attempts <= maxAttempts

CanPollAgain(attempts) == attempts < maxAttempts

\* which branch of poll a reply takes
PollBranchExhaustedFaultIsTimeout(reply, attempts) ==
  IF reply.thrown
  THEN IF CanPollAgain(attempts) THEN "retry" ELSE "timeout"
  ELSE IF reply.success /\ reply.hasData
  THEN
    IF reply.state = "success" THEN "success"
    ELSE IF reply.state = "failed" THEN "failed"
    ELSE IF reply.state = "running" \/ reply.state = "queued"
    THEN IF CanPollAgain(attempts) THEN "continue" ELSE "timeout"
    ELSE "ignored"
  ELSE IF CanPollAgain(attempts) THEN "retry" ELSE "timeout"

PollBranchExhaustedIsFailed(reply, attempts) ==
  IF reply.thrown
  THEN IF CanPollAgain(attempts) THEN "retry" ELSE "pollError"
  ELSE IF reply.success /\ reply.hasData
  THEN
    IF reply.state = "success" THEN "success"
    ELSE IF reply.state = "failed" THEN "failed"
    ELSE IF reply.state = "running" \/ reply.state = "queued"
    THEN IF CanPollAgain(attempts) THEN "continue" ELSE "failed"
    ELSE "ignored"
  ELSE IF CanPollAgain(attempts) THEN "retry" ELSE "fetchError"

PollBranchSuccessNeedsBudget(reply, attempts) ==
  IF reply.thrown
  THEN IF CanPollAgain(attempts) THEN "retry" ELSE "pollError"
  ELSE IF reply.success /\ reply.hasData
  THEN
    IF reply.state = "failed" THEN "failed"
    ELSE IF reply.state \in { "running", "queued", "success" }
    THEN IF ~CanPollAgain(attempts) THEN "timeout"
         ELSE IF reply.state = "success" THEN "success" ELSE "continue"
    ELSE "ignored"
  ELSE IF CanPollAgain(attempts) THEN "retry" ELSE "fetchError"

PollBranchFailedFallsThrough(reply, attempts) ==
  IF reply.thrown
  THEN IF CanPollAgain(attempts) THEN "retry" ELSE "pollError"
  ELSE IF reply.success /\ reply.hasData
  THEN
    IF reply.state = "success" THEN "success"
    ELSE IF reply.state \in { "running", "queued", "failed" }
    THEN IF CanPollAgain(attempts) THEN "continue" ELSE "timeout"
    ELSE "ignored"
  ELSE IF CanPollAgain(attempts) THEN "retry" ELSE "fetchError"

PollBranch(reply, attempts) ==
  IF reply.thrown
  THEN IF CanPollAgain(attempts) THEN "retry" ELSE "pollError"
  ELSE IF reply.success /\ reply.hasData
  THEN
    IF reply.state = "success" THEN "success"
    ELSE IF reply.state = "failed" THEN "failed"
    ELSE IF reply.state = "running" \/ reply.state = "queued"
    THEN IF CanPollAgain(attempts) THEN "continue" ELSE "timeout"
    ELSE "ignored"
  ELSE IF CanPollAgain(attempts) THEN "retry" ELSE "fetchError"

\* the timer fires: attempts++ and the status fetch is issued
PollFireKeepsTimer(r) ==
  /\ loop[r].pc = "scheduled"
  /\ loop[r].attempts < maxAttempts
  /\ loop' = [loop EXCEPT ![r].attempts = @ + 1]
  /\ run' = [run EXCEPT ![r].checks = @ + 1]
  /\ UNCHANGED << page, mounted, nruns, call, libraryVars >>

PollFire(r) ==
  /\ loop[r].pc = "scheduled"
  /\ loop' = [loop EXCEPT ![r].pc = "inflight", ![r].delay = 0,
                          ![r].attempts = @ + 1]
  /\ run' = [run EXCEPT ![r].checks = @ + 1]
  /\ UNCHANGED << page, mounted, nruns, call, libraryVars >>

\* the status route answers from the orchestrator's answer
PollReply(r, ans) ==
  /\ loop[r].pc = "inflight"
  /\ loop' = [loop EXCEPT ![r].pc = "answered", ![r].reply = DagRunRoute(ans)]
  /\ UNCHANGED << page, mounted, nruns, run, call, libraryVars >>

\* the page's fetch of the status route throws (or its body is not JSON)
PollFetchThrows(r) ==
  /\ loop[r].pc = "inflight"
  /\ loop' = [loop EXCEPT ![r].pc = "answered", ![r].reply = PageFetchThrows]
  /\ UNCHANGED << page, mounted, nruns, run, call, libraryVars >>

\* setTimeout(poll, 5000)
RescheduleAfterInitialDelay(l) ==
  [l EXCEPT !.pc = "scheduled", !.delay = InitialDelay, !.reply = NoReply]

Reschedule(l) ==
  [l EXCEPT !.pc = "scheduled", !.delay = PollInterval, !.reply = NoReply]

\* log entry of one handled reply
Handled(log, fault, nonTerminal) ==
  [log EXCEPT !.handled = @ + 1, !.sawFault = @ \/ fault,
              !.sawNonTerminal = @ \/ nonTerminal]

\* poll, from the reply to its return
PollHandle(r) ==
  /\ loop[r].pc = "answered"
  /\ LET l == loop[r]
         reply == l.reply
         branch == PollBranch(reply, l.attempts)
     IN
       CASE branch = "success" ->
              /\ page' = [page EXCEPT !.dagStatus = reply.state,
                                      !.triggering = FALSE]
              /\ run' = [run EXCEPT
                           ![r] = [Handled(@, FALSE, FALSE) EXCEPT
                                     !.phase = "refreshUnpredicted"]]
              /\ loop' = [loop EXCEPT ![r] = NoLoop]
         [] branch = "failed" ->
              /\ page' = [page EXCEPT
                            !.dagStatus = reply.state, !.triggering = FALSE,
                            !.triggerResult =
                               Result(FALSE, T_DagRunFailed,
                                      RunDetail(l.runId, reply.state))]
              /\ run' = [run EXCEPT
                           ![r] = [Handled(@, FALSE, FALSE) EXCEPT
                                     !.phase = "Failed",
                                     !.failedCalls = @ + 1]]
              /\ loop' = [loop EXCEPT ![r] = NoLoop]
         [] branch = "continue" ->
              /\ page' = [page EXCEPT !.dagStatus = reply.state]
              /\ run' = [run EXCEPT ![r] = Handled(@, FALSE, TRUE)]
              /\ loop' = [loop EXCEPT ![r] = Reschedule(l)]
         [] branch = "timeout" ->
              /\ page' = [page EXCEPT
                            !.dagStatus = reply.state, !.triggering = FALSE,
                            !.triggerResult =
                               Result(FALSE, T_PollingTimeout, EmptyPayload)]
              /\ run' = [run EXCEPT
                           ![r] = [Handled(@, FALSE, TRUE) EXCEPT
                                     !.phase = "TimedOut"]]
              /\ loop' = [loop EXCEPT ![r] = NoLoop]
         [] branch = "ignored" ->
              /\ page' = [page EXCEPT !.dagStatus = reply.state]
              /\ run' = [run EXCEPT
                           ![r] = [Handled(@, FALSE, FALSE) EXCEPT
                                     !.phase = "Stalled"]]
              /\ loop' = [loop EXCEPT ![r] = NoLoop]
         [] branch = "retry" ->
              /\ page' = page
              /\ run' = [run EXCEPT ![r] = Handled(@, TRUE, FALSE)]
              /\ loop' = [loop EXCEPT ![r] = Reschedule(l)]
         [] branch = "fetchError" ->
              /\ page' = [page EXCEPT
                            !.triggering = FALSE,
                            !.triggerResult =
                               Result(FALSE, T_FailedToFetchStatus,
                                      EmptyPayload)]
              /\ run' = [run EXCEPT
                           ![r] = [Handled(@, TRUE, FALSE) EXCEPT
                                     !.phase = "PollError"]]
              /\ loop' = [loop EXCEPT ![r] = NoLoop]
         [] OTHER ->
              /\ page' = [page EXCEPT
                            !.triggering = FALSE,
                            !.triggerResult =
                               Result(FALSE, T_ErrorPolling, EmptyPayload)]
              /\ run' = [run EXCEPT
                           ![r] = [Handled(@, TRUE, FALSE) EXCEPT
                                     !.phase = "PollError"]]
              /\ loop' = [loop EXCEPT ![r] = NoLoop]
  /\ UNCHANGED << mounted, nruns, call, libraryVars >>

\* await refreshUnpredicted() returns (whatever its fetch did); then
\* fetchRecentPredictions(triggerTime) issues its fetch
RefreshUnpredictedReturns(r) ==
  /\ run[r].phase = "refreshUnpredicted"
  /\ run' = [run EXCEPT ![r].phase = "fetchRecentPredictions",
                        ![r].refetches = @ + 1]
  /\ UNCHANGED << page, mounted, nruns, call, loop, libraryVars >>

\* await fetchRecentPredictions returns; setShowPredictions(true); return
FetchRecentReturns(r) ==
  /\ run[r].phase = "fetchRecentPredictions"
  /\ page' = [page EXCEPT !.showPredictions = TRUE]
  /\ run' = [run EXCEPT ![r].phase = "Success", ![r].shown = @ + 1]
  /\ UNCHANGED << mounted, nruns, call, loop, libraryVars >>

\* the page is left: the component unmounts. The only effect registered
\* (useEffect(..., [])) returns no cleanup, so nothing is cancelled.
Unmount ==
  /\ mounted
  /\ mounted' = FALSE
  /\ UNCHANGED << page, nruns, run, call, loop, libraryVars >>

Next ==
  \/ triggerDag
  \/ \E r \in Runs, ans \in TriggerAnswers : TriggerRouteRuns(r, ans)
  \/ \E r \in Runs : TriggerFetchThrows(r)
  \/ \E r \in Runs : TriggerReturns(r)
  \/ \E r \in Runs : PollFire(r)
  \/ \E r \in Runs, ans \in StatusAnswers : PollReply(r, ans)
  \/ \E r \in Runs : PollFetchThrows(r)
  \/ \E r \in Runs : PollHandle(r)
  \/ \E r \in Runs : RefreshUnpredictedReturns(r)
  \/ \E r \in Runs : FetchRecentReturns(r)
  \/ Unmount

Spec == Init /\ [][Next]_vars

\* the steps the runtime takes by itself: a pending fetch is answered or
\* throws, a pending timer fires, a resumed handler runs to its next await.
\* A click on the button and leaving the page are up to the user.
Progress ==
  \/ \E r \in Runs, ans \in TriggerAnswers : TriggerRouteRuns(r, ans)
  \/ \E r \in Runs : TriggerFetchThrows(r)
  \/ \E r \in Runs : TriggerReturns(r)
  \/ \E r \in Runs : PollFire(r)
  \/ \E r \in Runs, ans \in StatusAnswers : PollReply(r, ans)
  \/ \E r \in Runs : PollFetchThrows(r)
  \/ \E r \in Runs : PollHandle(r)
  \/ \E r \in Runs : RefreshUnpredictedReturns(r)
  \/ \E r \in Runs : FetchRecentReturns(r)

SpecLive == Spec /\ WF_vars(Progress)

\* ===================================================================
\* Properties of the trigger client (airflow.ts) and the trigger route,
\* stated on the trigger request in flight: call[r].answer is what the
\* orchestrator answered, call[r].outcome what triggerPredictionDag
\* returned, call[r].http what the route sends to the page.
\* ===================================================================
Answered2xx(c) == c.active /\ c.answer.net = "ok" /\ ResponseOk(c.answer.status)
AnsweredNon2xx(c) ==
  c.active /\ c.answer.net = "ok" /\ ~ResponseOk(c.answer.status)

\* the error text of a non-2xx answer: detail, else error, else HTTP <status>
ErrorTextOf(ans) ==
  IF ans.kind = "json" /\ ans.json.detail # Empty THEN ans.json.detail
  ELSE IF ans.kind = "json" /\ ans.json.error # Empty THEN ans.json.error
  ELSE T_HTTP \o NumberToText(ans.status)

SaysNoNewRows(ans) == includes(toLowerCase(ErrorTextOf(ans)), T_noNewRows)

\* C5: every non-2xx answer whose error text contains "no new rows" in any
\* letter case yields a successful (BenignNoOp) outcome, never Failed.
C5_BenignNoOpInAnyLetterCase ==
  \A r \in Runs :
    (AnsweredNon2xx(call[r]) /\ SaysNoNewRows(call[r].answer))
      => call[r].outcome.success

\* C6 as stated: a trigger call that cannot complete, through a connectivity
\* failure or a malformed body, never yields a successful outcome.
C6_MalformedBodyIsTransportError ==
  \A r \in Runs :
    (call[r].active /\ (call[r].answer.net = "error"
                        \/ call[r].answer.kind = "malformed"))
      => ~call[r].outcome.success

\* C6 amended: a connectivity failure (fetch throws) yields a failed outcome
\* carrying the underlying error description, never a successful one; a
\* malformed body is ignored: the outcome is that of an empty payload,
\* successful exactly when the status is 2xx.
C6_TransportErrorOnConnectivityFailure ==
  \A r \in Runs :
    LET c == call[r] IN
    /\ (c.active /\ c.answer.net = "error") =>
         /\ ~c.outcome.success
         /\ c.outcome.message = c.answer.errmsg
         /\ includes(c.outcome.details.error, c.answer.errmsg)
         /\ ~ResponseOk(c.http.status)
    /\ (c.active /\ c.answer.net = "ok" /\ c.answer.kind = "malformed") =>
         /\ c.outcome.details = EmptyPayload
         /\ c.outcome.success = ResponseOk(c.answer.status)
         /\ ~c.outcome.success =>
              c.outcome.message = T_HTTP \o NumberToText(c.answer.status)

C6_Witness ==
  \E r \in Runs :
    /\ call[r].active /\ call[r].answer.net = "error"
    /\ call[r].outcome.message = T_FetchFailed
    /\ ~call[r].outcome.success

\* C7: every non-2xx answer whose error text does not contain "no new rows"
\* yields a Failed outcome whose message is the orchestrator's error text
\* (detail, else error) when present and else HTTP <status>, and the trigger
\* route reports it to the page as an error carrying that message.
C7_FailedCarriesErrorText ==
  \A r \in Runs :
    LET c == call[r] IN
    (AnsweredNon2xx(c) /\ ~SaysNoNewRows(c.answer)) =>
      /\ ~c.outcome.success
      /\ c.outcome.message = ErrorTextOf(c.answer)
      /\ ~ResponseOk(c.http.status)
      /\ c.http.error = ErrorTextOf(c.answer)

C7_Witness ==
  \E r \in Runs :
    /\ AnsweredNon2xx(call[r])
    /\ call[r].answer.json.detail = T_NotFound
    /\ call[r].answer.json.error = T_Denied
    /\ call[r].outcome.message = T_NotFound

\* C8 as stated: every 2xx answer yields a successful outcome that carries a
\* run identifier.
C8_AcceptedAlwaysHasRunId ==
  \A r \in Runs :
    Answered2xx(call[r]) =>
      /\ call[r].outcome.success
      /\ call[r].outcome.details.dag_run_id # NoRunId

\* C8 amended: every 2xx answer yields a successful outcome that carries the
\* raw parsed payload (the empty object when the body is empty or not JSON);
\* it carries a run identifier exactly when that payload has a dag_run_id,
\* and the page polls only a run whose identifier it was given.
C8_AcceptedCarriesPayload ==
  \A r \in Runs :
    LET c == call[r] IN
    /\ Answered2xx(c) =>
         /\ c.outcome.success
         /\ c.outcome.details =
              (IF c.answer.kind = "json" THEN c.answer.json ELSE EmptyPayload)
         /\ ResponseOk(c.http.status)
         /\ c.http.details = c.outcome.details
    /\ loop[r].pc # "none" =>
         (loop[r].runId \in RunIds /\ page.dagRunId = loop[r].runId)
    /\ run[r].phase = "NoRunId" => (loop[r].pc = "none" /\ page.dagRunId = NoRunId)

C8_Witness ==
  \E r \in Runs :
    /\ Answered2xx(call[r])
    /\ call[r].outcome.details.dag_run_id \in RunIds

\* ===================================================================
\* Properties of the poll loop (pollDagStatus.poll), stated on the log of a
\* run while it has not been archived by a later trigger.
\* ===================================================================
Recorded(r) == ~run[r].archived
LoopActive(r) == loop[r].pc \in { "scheduled", "inflight", "answered" }
FollowUpPhases == { "refreshUnpredicted", "fetchRecentPredictions", "Success" }

\* the reply being handled is a status answer with this run state
RepliedState(r, state) ==
  /\ loop[r].pc = "answered"
  /\ ~loop[r].reply.thrown /\ loop[r].reply.success
  /\ loop[r].reply.state = state

\* the reply being handled is a fault: error answer of the route, or the
\* page's fetch / JSON parse threw
RepliedFault(r) ==
  /\ loop[r].pc = "answered"
  /\ (loop[r].reply.thrown \/ ~loop[r].reply.success)

\* C1: when the replies of a run are k-1 times queued or running and then
\* success (1 <= k <= 60, the 60th check included), the loop has made exactly
\* k status checks, the run goes to Success, and the success follow-up
\* (fetchRecentPredictions and setShowPredictions(true)) runs exactly once.
C1_SuccessAfterNonTerminalReplies ==
  /\ [](\A r \in Runs :
         /\ (run[r].phase \in FollowUpPhases /\ Recorded(r)
               /\ ~run[r].sawFault) =>
              /\ run[r].checks = run[r].handled
              /\ run[r].checks >= 1 /\ run[r].checks <= maxAttempts
              /\ run[r].sawNonTerminal = (run[r].checks > 1)
              /\ page.dagStatus = "success"
              /\ ~page.triggering
         /\ run[r].phase \in FollowUpPhases =>
              /\ loop[r] = NoLoop
              /\ run[r].failedCalls = 0
              /\ run[r].refetches =
                   (IF run[r].phase = "refreshUnpredicted" THEN 0 ELSE 1)
              /\ run[r].shown = (IF run[r].phase = "Success" THEN 1 ELSE 0)
         /\ run[r].phase \notin FollowUpPhases =>
              (run[r].refetches = 0 /\ run[r].shown = 0))
  /\ [][\A r \in Runs :
          (RepliedState(r, "success") /\ loop'[r] # loop[r]) =>
             /\ run'[r].phase = "refreshUnpredicted"
             /\ run'[r].checks = run[r].checks
             /\ run'[r].handled = run[r].checks]_vars

C1_Witness ==
  \E r \in Runs :
    /\ run[r].phase = "Success" /\ Recorded(r)
    /\ ~run[r].sawFault /\ run[r].sawNonTerminal
    /\ run[r].checks = maxAttempts
    /\ run[r].shown = 1 /\ run[r].refetches = 1
    /\ page.showPredictions

\* C2: when every reply of a run is queued or running, the loop makes exactly
\* 60 status checks and the run then ends TimedOut (triggering cleared, the
\* timeout result set); neither the success follow-up nor the failed handler
\* is ever called for that run.
C2_TimedOutAfterSixtyChecks ==
  /\ [](\A r \in Runs :
         /\ run[r].checks <= maxAttempts
         /\ (run[r].phase = "TimedOut" /\ Recorded(r)) =>
              /\ run[r].checks = maxAttempts
              /\ run[r].handled = maxAttempts
              /\ run[r].sawNonTerminal
              /\ ~page.triggering
              /\ page.triggerResult =
                   Result(FALSE, T_PollingTimeout, EmptyPayload)
         /\ run[r].phase = "TimedOut" =>
              /\ loop[r] = NoLoop
              /\ run[r].refetches = 0 /\ run[r].shown = 0
              /\ run[r].failedCalls = 0)
  /\ [][\A r \in Runs :
          /\ ((RepliedState(r, "queued") \/ RepliedState(r, "running"))
                /\ loop'[r] # loop[r]) =>
               IF run[r].checks < maxAttempts
               THEN /\ loop'[r].pc = "scheduled"
                    /\ run'[r].phase = "polling"
               ELSE run'[r].phase = "TimedOut"
          /\ run[r].phase = "TimedOut" => run'[r].phase = "TimedOut"]_vars

C2_Witness ==
  \E r \in Runs :
    /\ run[r].phase = "TimedOut" /\ Recorded(r)
    /\ ~run[r].sawFault
    /\ run[r].checks = maxAttempts
    /\ page.triggerResult.message = T_PollingTimeout

\* C3: once a reply of a run is success or failed, no further status check
\* is issued or scheduled for that run and triggering is cleared; on failed
\* the failure result carries the run detail of the orchestrator and the
\* success follow-up is never called.
C3_TerminalReplyStopsPolling ==
  /\ [](\A r \in Runs :
         /\ run[r].phase \in FollowUpPhases \cup { "Failed" } => ~LoopActive(r)
         /\ run[r].phase = "Failed" =>
              (run[r].refetches = 0 /\ run[r].shown = 0
                 /\ run[r].failedCalls = 1)
         /\ (run[r].phase = "Failed" /\ Recorded(r)) =>
              /\ ~page.triggering
              /\ page.dagStatus = "failed"
              /\ page.triggerResult =
                   Result(FALSE, T_DagRunFailed,
                          RunDetail(page.dagRunId, "failed"))
              /\ page.dagRunId \in RunIds)
  /\ [][\A r \in Runs :
          /\ ((RepliedState(r, "success") \/ RepliedState(r, "failed"))
                /\ loop'[r] # loop[r]) =>
               /\ loop'[r] = NoLoop
               /\ ~page'.triggering
               /\ run'[r].phase \in { "refreshUnpredicted", "Failed" }
          /\ run[r].phase \in FollowUpPhases \cup { "Failed" } =>
               /\ run'[r].checks <= run[r].checks
               /\ run'[r].phase \in FollowUpPhases \cup { "Failed" }]_vars

C3_Witness ==
  \E r \in Runs :
    /\ run[r].phase = "Failed" /\ Recorded(r)
    /\ run[r].checks > 1
    /\ page.triggerResult.details.state = "failed"
    /\ page.triggerResult.details.dag_run_id \in RunIds

\* C4: a status check that itself errors (error answer of the status route,
\* network failure, unparseable body) is retried after the same fixed
\* interval and uses up one of the same 60 attempts; when all 60 are faults
\* the run ends PollError after exactly 60 checks with triggering cleared,
\* and neither the success follow-up nor the failed handler is called.
C4_FaultsAreRetriedWithinBudget ==
  /\ [](\A r \in Runs :
         /\ loop[r].attempts <= maxAttempts
         /\ LoopActive(r) => loop[r].attempts = run[r].checks
         /\ (loop[r].pc = "scheduled" /\ run[r].handled > 0) =>
              loop[r].delay = PollInterval
         /\ (run[r].phase = "PollError" /\ Recorded(r)) =>
              /\ run[r].checks = maxAttempts
              /\ run[r].handled = maxAttempts
              /\ run[r].sawFault
              /\ ~page.triggering
              /\ page.triggerResult \in
                   { Result(FALSE, T_FailedToFetchStatus, EmptyPayload),
                     Result(FALSE, T_ErrorPolling, EmptyPayload) }
         /\ run[r].phase = "PollError" =>
              /\ loop[r] = NoLoop
              /\ run[r].refetches = 0 /\ run[r].shown = 0
              /\ run[r].failedCalls = 0)
  /\ [][\A r \in Runs :
          (RepliedFault(r) /\ loop'[r] # loop[r]) =>
             IF run[r].checks < maxAttempts
             THEN /\ loop'[r].pc = "scheduled"
                  /\ loop'[r].delay = PollInterval
                  /\ loop'[r].attempts = loop[r].attempts
                  /\ run'[r].phase = "polling"
                  /\ page' = page
             ELSE run'[r].phase = "PollError"]_vars

C4_Witness ==
  \E r \in Runs :
    /\ run[r].phase = "PollError" /\ Recorded(r)
    /\ ~run[r].sawNonTerminal
    /\ run[r].checks = maxAttempts
    /\ ~page.triggering

\* C9: when the page is torn down while a poll of a run is scheduled, the
\* scheduled poll does not fire: no status check is issued and no state
\* update is made for that run after the teardown.
C9_NoPollAfterTeardown ==
  [][\A r \in Runs :
       (~mounted /\ LoopActive(r)) =>
          /\ loop'[r] = loop[r]
          /\ run'[r].checks = run[r].checks
          /\ page' = page]_vars

Showing(r, phase) == run[r].phase = phase /\ Recorded(r)

\* C11: a run whose attempt budget ran out without a terminal state is shown
\* differently from a failed one: while it is the run on display dagStatus
\* is queued or running (never failed), the status panel is neither red nor
\* titled DAG Failed, the result is the polling-timeout message and the
\* failed handler never ran for it; a run that ended Failed shows dagStatus
\* failed, the red DAG Failed panel and the DAG-run-failed message, never the
\* timeout message.
C11_TimedOutIsNotShownAsFailed ==
  \A r \in Runs :
    /\ Showing(r, "TimedOut") =>
         /\ page.dagStatus \in { "queued", "running" }
         /\ StatusPanel.shown
         /\ StatusPanel.title # "DAG Failed" /\ StatusPanel.tone # "red"
         /\ page.triggerResult.set
         /\ page.triggerResult.message = T_PollingTimeout
         /\ page.triggerResult.message # T_DagRunFailed
         /\ run[r].failedCalls = 0
    /\ Showing(r, "Failed") =>
         /\ page.dagStatus = "failed"
         /\ StatusPanel.title = "DAG Failed" /\ StatusPanel.tone = "red"
         /\ page.triggerResult.message = T_DagRunFailed
         /\ page.triggerResult.message # T_PollingTimeout
         /\ run[r].failedCalls = 1

C11_Witness ==
  \E r \in Runs :
    /\ Showing(r, "TimedOut")
    /\ run[r].checks = maxAttempts
    /\ StatusPanel.title = "DAG Running"
    /\ page.triggerResult.message = T_PollingTimeout

\* C21: the run state shown only moves forward along queued, running,
\* terminal: once dagStatus is running no step sets it back to queued,
\* whatever the orchestrator answers.
C21_RunningNeverReturnsToQueued ==
  [][page.dagStatus = "running" => page'.dagStatus # "queued"]_vars

\* C27: while a run that ended TimedOut or PollError is the run on display,
\* the trigger button is enabled: triggering is false and dagStatus is not
\* running.
C27_ButtonEnabledAfterTimedOutOrPollError ==
  \A r \in Runs :
    (Showing(r, "TimedOut") \/ Showing(r, "PollError")) =>
      (~page.triggering /\ page.dagStatus # "running" /\ ~ButtonDisabled)

\* C28: while a run is in progress (triggering is true) showPredictions is
\* false, also when the trigger was issued during the success follow-up of
\* an earlier run.
C28_NoPredictionsPanelWhileTriggering ==
  page.triggering => ~page.showPredictions

\* C22: the poll callbacks of a run never overlap.  At most one status
\* check of the run is scheduled or in flight: every check issued but the
\* one scheduled or in flight has been handled; a check is issued only by
\* the pending timer and a timer is set only by pollDagStatus or after the
\* previous reply was handled; no run is checked more than 60 times.
C22_PollCallbacksNeverOverlap ==
  /\ [](\A r \in Runs :
         /\ run[r].checks <= maxAttempts
         /\ LoopActive(r) =>
              run[r].checks =
                run[r].handled + (IF loop[r].pc = "scheduled" THEN 0 ELSE 1)
         /\ (Recorded(r) /\ ~LoopActive(r)) => run[r].checks = run[r].handled)
  /\ [][\A r \in Runs :
          /\ run'[r].checks > run[r].checks =>
               /\ loop[r].pc = "scheduled" /\ loop'[r].pc = "inflight"
               /\ run'[r].checks = run[r].checks + 1
               /\ run[r].handled = run[r].checks
          /\ (loop'[r].pc = "scheduled" /\ loop[r].pc # "scheduled") =>
               \/ loop[r].pc = "answered" /\ run'[r].handled = run[r].checks
               \/ loop[r].pc = "none" /\ run[r].phase = "responded"]_vars

C22_Witness ==
  \E r \in Runs :
    /\ loop[r].pc = "inflight"
    /\ run[r].checks = maxAttempts
    /\ run[r].handled = maxAttempts - 1
    /\ run[r].sawFault /\ run[r].sawNonTerminal

\* the trigger of run r was refused: the route answered an error or the
\* page's fetch threw
TriggerRefused(r) ==
  \/ run[r].phase = "triggering"
  \/ run[r].phase = "responded" /\ ~call[r].outcome.success

\* C23: no status check is issued before the trigger returned an accepted
\* outcome, and the first check is issued by a timer of the initial delay,
\* never at once; when the trigger outcome is Failed or TransportError no
\* status check is ever issued for the run, dagStatus is cleared and
\* triggering is reset.
C23_FirstCheckAfterAcceptedAndDelay ==
  /\ [](\A r \in Runs :
         /\ run[r].phase \in { "idle", "triggering", "responded",
                               "TriggerFailed", "NoRunId" } =>
              (run[r].checks = 0 /\ loop[r] = NoLoop)
         /\ (loop[r].pc = "scheduled" /\ run[r].checks = 0) =>
              loop[r].delay = InitialDelay
         /\ Showing(r, "TriggerFailed") =>
              /\ page.dagStatus = NoState /\ ~page.triggering
              /\ page.triggerResult.set /\ ~page.triggerResult.success)
  /\ [][\A r \in Runs :
          /\ (run[r].phase = "responded" /\ run'[r].phase # "responded") =>
               IF call[r].outcome.success
               THEN /\ run'[r].phase \in { "polling", "NoRunId" }
                    /\ run'[r].phase = "polling" =>
                         /\ call[r].outcome.details.dag_run_id \in RunIds
                         /\ loop'[r].pc = "scheduled"
                         /\ loop'[r].delay = InitialDelay
                         /\ loop'[r].attempts = 0
                         /\ run'[r].checks = 0
               ELSE run'[r].phase = "TriggerFailed"
          /\ (TriggerRefused(r) /\ run'[r].phase \notin
                                     { "triggering", "responded" }) =>
               /\ run'[r].phase = "TriggerFailed"
               /\ page'.dagStatus = NoState /\ ~page'.triggering
               /\ loop'[r] = NoLoop
          /\ run[r].phase = "TriggerFailed" =>
               /\ run'[r].phase = "TriggerFailed"
               /\ run'[r].checks = 0 /\ loop'[r] = NoLoop
          /\ (loop'[r].pc = "inflight" /\ loop[r].pc # "inflight") =>
               (loop[r].pc = "scheduled" /\ loop[r].delay > 0)]_vars

C23_Witness ==
  \E r \in Runs :
    /\ Showing(r, "TriggerFailed")
    /\ page.triggerResult.message = T_NotFound
    /\ page.dagStatus = NoState /\ ~page.triggering
    /\ run[r].checks = 0

\* the first check of an accepted run is waiting for its initial delay
C23_DelayedWitness ==
  \E r \in Runs :
    /\ run[r].phase = "polling" /\ loop[r].pc = "scheduled"
    /\ loop[r].delay = InitialDelay /\ run[r].checks = 0
    /\ page.dagRunId \in RunIds

\* C29: when the budget is used up after a mixture of faults and queued or
\* running replies, the run ends by the 60th reply alone: TimedOut when it
\* is queued or running, PollError when it is a fault, whatever came
\* before; a fault or a queued or running reply before the 60th never ends
\* the run.
C29_SixtiethCheckDecidesTheEnd ==
  /\ [](\A r \in Runs :
         (Recorded(r) /\ run[r].phase \in { "TimedOut", "PollError" }) =>
            /\ run[r].checks = maxAttempts /\ run[r].handled = maxAttempts
            /\ run[r].phase = "TimedOut" =>
                 page.triggerResult.message = T_PollingTimeout
            /\ run[r].phase = "PollError" =>
                 page.triggerResult.message \in
                   { T_FailedToFetchStatus, T_ErrorPolling })
  /\ [][\A r \in Runs :
          (loop[r].pc = "answered" /\ loop'[r] # loop[r]) =>
            LET nonTerminal == RepliedState(r, "queued")
                                 \/ RepliedState(r, "running")
            IN
            IF run[r].checks = maxAttempts
            THEN /\ nonTerminal => run'[r].phase = "TimedOut"
                 /\ RepliedFault(r) => run'[r].phase = "PollError"
            ELSE (nonTerminal \/ RepliedFault(r)) =>
                   /\ run'[r].phase = "polling"
                   /\ loop'[r].pc = "scheduled"
                   /\ page'.triggering = page.triggering
                   /\ page'.triggerResult = page.triggerResult]_vars

C29_Witness ==
  \E r \in Runs :
    /\ Showing(r, "TimedOut")
    /\ run[r].sawFault /\ run[r].sawNonTerminal
    /\ run[r].checks = maxAttempts

\* the same mixture ending with a fault
C29_PollErrorWitness ==
  \E r \in Runs :
    /\ Showing(r, "PollError")
    /\ run[r].sawFault /\ run[r].sawNonTerminal
    /\ run[r].checks = maxAttempts

\* C26: every trigger eventually leaves the in-progress state: whenever
\* triggering is true it is eventually set back to false, for every trigger
\* outcome and every sequence of status replies.
C26_TriggeringEventuallyCleared ==
  page.triggering ~> ~page.triggering

\* ===================================================================
\* The executive overview (lib/queries.ts): getLatestPredictionsPerSupplier,
\* normalizeRiskLabel and getExecutiveOverview, computed over the rows of
\* risk_prediction_history.  A probability is a whole number of tenths.
\* ===================================================================

\* ---- bounds of the histories the queries are run on
\* rows of a history that varies supplier, date and risk label
MaxRows == 3
\* rows of a one-supplier history that varies the risk label only
MaxTallyRows == 6
\* rows of a history that varies prob_high only
MaxProbRows == 4
\* rows of a history longer than the top-N cut
MaxLongRows == 11

\* ---- String.prototype.replaceAll (one character) and trim
replaceAll(s, from, to) ==
  [i \in 1..Len(s) |-> IF s[i] = from THEN to ELSE s[i]]

WhiteSpace == { " " }

trim(s) ==
  LET kept == { i \in 1..Len(s) : s[i] \notin WhiteSpace } IN
  IF kept = {} THEN Empty
  ELSE LET first == CHOOSE i \in kept : \A j \in kept : i <= j
           last == CHOOSE i \in kept : \A j \in kept : j <= i
       IN SubSeq(s, first, last)

\* a null text and a null number of a row
Null == << "null" >>
NullNumber == -1

\* (label ?? "").toLowerCase().replaceAll("_", " ").trim()
normalizeRiskLabel(label) ==
  trim(replaceAll(toLowerCase(IF label = Null THEN Empty ELSE label),
                  "_", " "))

RiskLabel ==
  [high |-> << "h", "i", "g", "h" >>,
   highRisk |-> << "h", "i", "g", "h", " ", "r", "i", "s", "k" >>,
   medium |-> << "m", "e", "d", "i", "u", "m" >>,
   mediumRisk |-> << "m", "e", "d", "i", "u", "m", " ", "r", "i", "s", "k"
       >>,
   low |-> << "l", "o", "w" >>,
   lowRisk |-> << "l", "o", "w", " ", "r", "i", "s", "k" >>]

\* predicted_risk values as the prediction job may have written them
L_High == << "H", "i", "g", "h" >>
L_high_risk == << "h", "i", "g", "h", "_", "r", "i", "s", "k" >>
L_MEDIUM == << " ", "M", "E", "D", "I", "U", "M", " " >>
L_LowRisk == << "L", "o", "w", " ", "R", "i", "s", "k" >>
L_Critical == << "C", "r", "i", "t", "i", "c", "a", "l" >>

\* ---- the tables
SupplierIds == << "S1", "S2" >>
Dates == { 1, 2 }

Row(s, d, risk, p) ==
  [supplier_id |-> s, prediction_date |-> d, predicted_risk |-> risk,
   prob_high |-> p]

\* supplier_profile: S2 has no profile
Profiles == << [supplier_id |-> "S1", supplier_name |-> "Acme"] >>
\* supplier_id column of supplier_risk_master
RiskMasterIds == << "S1", "S1", "S2" >>

RECURSIVE SeqsUpTo(_, _)
SeqsUpTo(S, n) ==
  IF n = 0 THEN { << >> }
  ELSE LET shorter == SeqsUpTo(S, n - 1) IN
       shorter \cup { Append(q, x) : q \in { t \in shorter : Len(t) = n - 1 },
                                      x \in S }

\* histories that vary supplier, date and label
LabelRows ==
  { Row(SupplierIds[i], d, l, NullNumber) :
      i \in 1..Len(SupplierIds), d \in Dates,
      l \in { L_high_risk, L_MEDIUM, L_LowRisk, Null } }
LabelHistories == SeqsUpTo(LabelRows, MaxRows)

\* histories of one supplier on one date that vary the label
TallyRows ==
  { Row("S1", 1, l, NullNumber) :
      l \in { L_High, L_MEDIUM, L_LowRisk, L_Critical } }
TallyHistories == SeqsUpTo(TallyRows, MaxTallyRows)

\* histories that vary prob_high; the i-th row is dated i
ProbValues == { NullNumber, 0, 1, 5, 9 }
Dated(probs, risk) ==
  [i \in 1..Len(probs) |-> Row("S1", i, risk, probs[i])]
ProbHistories ==
  { Dated(q, L_High) : q \in SeqsUpTo(ProbValues, MaxProbRows) }

\* histories longer than the top-N cut
TopN == 10
LongHistories ==
  { Dated(q, L_LowRisk) :
      q \in { t \in SeqsUpTo({ 1, 9 }, MaxLongRows) : Len(t) > TopN } }

Histories ==
  LabelHistories \cup TallyHistories \cup ProbHistories \cup LongHistories

\* ---- getLatestPredictionsPerSupplier
SupplierRank(s) == CHOOSE i \in 1..Len(SupplierIds) : SupplierIds[i] = s

\* .order("supplier_id", ascending).order("prediction_date", descending):
\* row a is placed before row b
LatestFirstOldestFirst(a, b) ==
  \/ SupplierRank(a.supplier_id) < SupplierRank(b.supplier_id)
  \/ /\ a.supplier_id = b.supplier_id
     /\ a.prediction_date < b.prediction_date

LatestFirst(a, b) ==
  \/ SupplierRank(a.supplier_id) < SupplierRank(b.supplier_id)
  \/ /\ a.supplier_id = b.supplier_id
     /\ a.prediction_date > b.prediction_date

\* rows equal in both keys keep the order the store holds them in
RECURSIVE InsertLatestFirst(_, _)
InsertLatestFirst(x, sorted) ==
  IF sorted = << >> THEN << x >>
  ELSE IF LatestFirst(x, Head(sorted)) THEN << x >> \o sorted
  ELSE << Head(sorted) >> \o InsertLatestFirst(x, Tail(sorted))

RECURSIVE OrderLatestFirst(_)
OrderLatestFirst(rows) ==
  IF rows = << >> THEN << >>
  ELSE InsertLatestFirst(rows[Len(rows)],
                         OrderLatestFirst(SubSeq(rows, 1, Len(rows) - 1)))

\* for (const r of rows) if (!latestBySupplier.has(r.supplier_id)) set(...)
RECURSIVE FirstPerSupplier(_, _)
FirstPerSupplier(rows, seen) ==
  IF rows = << >> THEN << >>
  ELSE IF Head(rows).supplier_id \in seen
  THEN FirstPerSupplier(Tail(rows), seen)
  ELSE << Head(rows) >>
         \o FirstPerSupplier(Tail(rows), seen \cup { Head(rows).supplier_id })

getLatestPredictionsPerSupplier(table) ==
  FirstPerSupplier(OrderLatestFirst(table), {})

\* ---- getExecutiveOverview
\* nameById.get(p.supplier_id): undefined when the supplier has no profile
NameOf(profiles, id) ==
  IF \E i \in 1..Len(profiles) : profiles[i].supplier_id = id
  THEN LET last == CHOOSE i \in 1..Len(profiles) :
                     /\ profiles[i].supplier_id = id
                     /\ \A j \in 1..Len(profiles) :
                          profiles[j].supplier_id = id => j <= i
       IN profiles[last].supplier_name
  ELSE "undefined"

WithNames(profiles, rows) ==
  [i \in 1..Len(rows) |->
     [supplier_id |-> rows[i].supplier_id,
      prediction_date |-> rows[i].prediction_date,
      predicted_risk |-> rows[i].predicted_risk,
      prob_high |-> rows[i].prob_high,
      supplier_name |-> NameOf(profiles, rows[i].supplier_id)]]

\* which per-supplier counter a row adds to
TallyKey(label) ==
  LET r == normalizeRiskLabel(label) IN
  IF r = RiskLabel.highRisk \/ r = RiskLabel.high THEN "high"
  ELSE IF r = RiskLabel.mediumRisk \/ r = RiskLabel.medium THEN "medium"
  ELSE IF r = RiskLabel.lowRisk \/ r = RiskLabel.low THEN "low"
  ELSE "unknown"

ZeroTally == [high |-> 0, medium |-> 0, low |-> 0, unknown |-> 0]

\* supplierRiskCounts after the loop over allPredictions
RECURSIVE TallyBySupplier(_)
TallyBySupplier(rows) ==
  IF rows = << >> THEN [id \in {} |-> ZeroTally]
  ELSE LET before == TallyBySupplier(SubSeq(rows, 1, Len(rows) - 1))
           p == rows[Len(rows)]
           counts == IF p.supplier_id \in DOMAIN before
                     THEN before[p.supplier_id] ELSE ZeroTally
           added == [counts EXCEPT ![TallyKey(p.predicted_risk)] = @ + 1]
       IN [id \in DOMAIN before \cup { p.supplier_id } |->
             IF id = p.supplier_id THEN added ELSE before[id]]

Max2(a, b) == IF a >= b THEN a ELSE b
MathMax(counts) ==
  Max2(Max2(counts.high, counts.medium), Max2(counts.low, counts.unknown))

\* the category a supplier is assigned to
MajorityCategoryLowFirst(counts) ==
  LET max == MathMax(counts) IN
  IF counts.low = max THEN "Low"
  ELSE IF counts.medium = max THEN "Medium"
  ELSE IF counts.high = max THEN "High"
  ELSE "Unknown"

MajorityCategory(counts) ==
  LET max == MathMax(counts) IN
  IF counts.high = max THEN "High"
  ELSE IF counts.medium = max THEN "Medium"
  ELSE IF counts.low = max THEN "Low"
  ELSE "Unknown"

ZeroRiskCounts == [High |-> 0, Medium |-> 0, Low |-> 0, Unknown |-> 0]

\* one turn of the loop over supplierRiskCounts
AssignKnownOnly(riskCounts, counts) ==
  IF MajorityCategory(counts) = "Unknown" THEN riskCounts
  ELSE [riskCounts EXCEPT ![MajorityCategory(counts)] = @ + 1]

Assign(riskCounts, counts) ==
  [riskCounts EXCEPT ![MajorityCategory(counts)] = @ + 1]

RECURSIVE AssignAll(_, _)
AssignAll(tallies, ids) ==
  IF ids = {} THEN ZeroRiskCounts
  ELSE LET id == CHOOSE x \in ids : TRUE IN
       Assign(AssignAll(tallies, ids \ { id }), tallies[id])

RiskCountsOfLatest(allPredictions) ==
  LET tallies == TallyBySupplier(
                   getLatestPredictionsPerSupplier(allPredictions)) IN
  AssignAll(tallies, DOMAIN tallies)

RiskCounts(allPredictions) ==
  LET tallies == TallyBySupplier(allPredictions) IN
  AssignAll(tallies, DOMAIN tallies)

\* r.prob_high ?? 0
ProbOrZeroNullLowest(row) == row.prob_high

ProbOrZero(row) == IF row.prob_high = NullNumber THEN 0 ELSE row.prob_high

RECURSIVE SumProb(_)
SumProb(rows) ==
  IF rows = << >> THEN 0
  ELSE SumProb(SubSeq(rows, 1, Len(rows) - 1)) + ProbOrZero(rows[Len(rows)])

\* the quotient sum / count, kept exact; null when there is no row
NullAverage == [null |-> TRUE, sum |-> 0, count |-> 0]

AvgProbHighOverKnown(allPredictions) ==
  IF Len(allPredictions) = 0 THEN NullAverage
  ELSE [null |-> FALSE, sum |-> SumProb(allPredictions),
        count |-> Cardinality({ i \in 1..Len(allPredictions) :
                                  allPredictions[i].prob_high # NullNumber })]

AvgProbHigh(allPredictions) ==
  IF Len(allPredictions) = 0 THEN NullAverage
  ELSE [null |-> FALSE, sum |-> SumProb(allPredictions),
        count |-> Len(allPredictions)]

\* .sort((a, b) => (b.prob_high ?? 0) - (a.prob_high ?? 0)): the sort is
\* stable, rows of equal key keep their order
RECURSIVE InsertByProb(_, _)
InsertByProb(x, sorted) ==
  IF sorted = << >> THEN << x >>
  ELSE IF ProbOrZero(Head(sorted)) - ProbOrZero(x) < 0 THEN << x >> \o sorted
  ELSE << Head(sorted) >> \o InsertByProb(x, Tail(sorted))

RECURSIVE SortByProb(_)
SortByProb(rows) ==
  IF rows = << >> THEN << >>
  ELSE InsertByProb(rows[Len(rows)],
                    SortByProb(SubSeq(rows, 1, Len(rows) - 1)))

\* Array.prototype.slice(0, n)
Slice(rows, n) == SubSeq(rows, 1, IF Len(rows) < n THEN Len(rows) ELSE n)

TopHighRisk(allWithNames) == Slice(SortByProb(allWithNames), TopN)

\* getTotalSuppliers: distinct string ids of supplier_risk_master
getTotalSuppliers(ids) == Cardinality({ ids[i] : i \in 1..Len(ids) })

\* the value getExecutiveOverview resolves to, from what its five parallel
\* queries returned
getExecutiveOverview(profiles, latestPredictions, allPredictions, totalSuppliers, totalPredictions) ==
  [called |-> TRUE, rejected |-> FALSE,
   allPredictions |-> allPredictions,
   latestPredictions |-> WithNames(profiles, latestPredictions),
   riskCounts |-> RiskCounts(allPredictions),
   avgProbHigh |-> AvgProbHigh(allPredictions),
   topHighRisk |-> TopHighRisk(WithNames(profiles, allPredictions)),
   totalSuppliers |-> totalSuppliers,
   totalPredictions |-> totalPredictions]

\* a query of the five returned an error: the call rejects
Rejected == [called |-> TRUE, rejected |-> TRUE]

\* ---- the specification of the overview: the table holds any bounded
\* history and the overview is computed from it
InitOverview ==
  /\ PageIdle /\ ShapIdle /\ UploadIdle /\ LaterIdle
  /\ history \in Histories
  /\ overview = NoOverview

Overview ==
  /\ ~overview.called
  /\ overview' = getExecutiveOverview(
                    Profiles, getLatestPredictionsPerSupplier(history),
                    history, getTotalSuppliers(RiskMasterIds), Len(history))
  /\ UNCHANGED << history, pageVars, shapVars, uploadVars,
               laterVars >>

OverviewRejects ==
  /\ ~overview.called
  /\ overview' = Rejected
  /\ UNCHANGED << history, pageVars, shapVars, uploadVars,
               laterVars >>

NextOverview == Overview \/ OverviewRejects

SpecOverview == InitOverview /\ [][NextOverview]_vars

\* ===================================================================
\* Properties of the executive overview, stated on the value
\* getExecutiveOverview returned for the table it read.
\* ===================================================================
OverviewDone == overview.called /\ ~overview.rejected

SuppliersOf(rows) == { rows[i].supplier_id : i \in 1..Len(rows) }
RowsOf(rows, id) == { i \in 1..Len(rows) : rows[i].supplier_id = id }

Categories == << "High", "Medium", "Low", "Unknown" >>
CategorySet == { Categories[k] : k \in 1..Len(Categories) }
\* the category each predicted_risk value of the histories stands for
LabelCategory(label) ==
  CASE label = L_High -> "High" [] label = L_high_risk -> "High"
    [] label = L_MEDIUM -> "Medium" [] label = L_LowRisk -> "Low"
    [] OTHER -> "Unknown"

\* how many predictions of a supplier fall in a category
Occurrences(rows, id, c) ==
  Cardinality({ i \in RowsOf(rows, id) :
                  LabelCategory(rows[i].predicted_risk) = c })

\* the tallies of a supplier, one per category
Tallies(rows, id) ==
  << Occurrences(rows, id, "High"), Occurrences(rows, id, "Medium"),
     Occurrences(rows, id, "Low"), Occurrences(rows, id, "Unknown") >>

\* C12: the four global category counts of an overview sum exactly to the
\* number of distinct supplier_ids among the predictions it read.
C12_CountsSumToDistinctSuppliers ==
  OverviewDone =>
    overview.riskCounts.High + overview.riskCounts.Medium
      + overview.riskCounts.Low + overview.riskCounts.Unknown
    = Cardinality(SuppliersOf(overview.allPredictions))

C12_Witness ==
  /\ OverviewDone
  /\ Cardinality(SuppliersOf(history)) = 2
  /\ overview.riskCounts.Unknown = 1
  /\ overview.riskCounts.Medium = 1

\* the first category, in the order High, Medium, Low, Unknown, whose
\* tally for the supplier equals the largest of its tallies
FirstWithMost(rows, id) ==
  LET tally == Tallies(rows, id)
      most == CHOOSE n \in { tally[i] : i \in 1..4 } :
                \A i \in 1..4 : tally[i] <= n
      k == CHOOSE i \in 1..4 :
             tally[i] = most /\ \A j \in 1..(i - 1) : tally[j] # most
  IN Categories[k]

\* C13: every supplier is counted under the first category in the order
\* High, Medium, Low, Unknown whose tally equals the largest tally of that
\* supplier: each global count is the number of suppliers so classified
\* (tallies high 2, medium 2 count as High; medium 3, low 3 as Medium).
C13_FirstCategoryWithMaxTallyWins ==
  OverviewDone =>
    \A c \in CategorySet :
      overview.riskCounts[c] =
        Cardinality({ id \in SuppliersOf(history) :
                        FirstWithMost(history, id) = c })

C13_Witness ==
  /\ OverviewDone
  /\ SuppliersOf(history) = { "S1" }
  /\ Occurrences(history, "S1", "Medium") = 3
  /\ Occurrences(history, "S1", "Low") = 3
  /\ history[1].predicted_risk = L_LowRisk
  /\ overview.riskCounts.Medium = 1

\* a record of the overview without the joined supplier name
Bare(r) == Row(r.supplier_id, r.prediction_date, r.predicted_risk, r.prob_high)

\* C14: the latest-per-supplier set holds exactly one record for every
\* distinct supplier_id of the table and none for any other; each is a row
\* of the table whose prediction_date is the largest among the rows of its
\* supplier, the first of them in the order the rows were returned when
\* several share that date; an empty table gives an empty set.
C14_OneLatestRecordPerSupplier ==
  OverviewDone =>
    LET latest == overview.latestPredictions IN
    /\ { latest[k].supplier_id : k \in 1..Len(latest) } = SuppliersOf(history)
    /\ Len(latest) = Cardinality(SuppliersOf(history))
    /\ history = << >> => latest = << >>
    /\ \A k \in 1..Len(latest) :
         \E i \in RowsOf(history, latest[k].supplier_id) :
           /\ Bare(latest[k]) = history[i]
           /\ \A j \in RowsOf(history, latest[k].supplier_id) :
                /\ history[j].prediction_date <= history[i].prediction_date
                /\ (history[j].prediction_date = history[i].prediction_date
                    /\ j < i) => history[j] = history[i]

C14_Witness ==
  /\ OverviewDone
  /\ Len(history) = 3
  /\ history[1] = Row("S2", 1, L_high_risk, NullNumber)
  /\ history[2] = Row("S1", 1, L_MEDIUM, NullNumber)
  /\ history[3] = Row("S2", 2, L_LowRisk, NullNumber)
  /\ Len(overview.latestPredictions) = 2
  /\ Bare(overview.latestPredictions[2]) = history[3]

\* prob_high with null counted as 0
NullAsZero(row) == IF row.prob_high = NullNumber THEN 0 ELSE row.prob_high

Without(rows, i) == SubSeq(rows, 1, i - 1) \o SubSeq(rows, i + 1, Len(rows))

\* the first n rows when the largest prob_high is taken first and, of rows
\* with equal prob_high, the one that comes first in rows
RECURSIVE BestFirst(_, _)
BestFirst(rows, n) ==
  IF n = 0 \/ rows = << >> THEN << >>
  ELSE LET best == CHOOSE i \in 1..Len(rows) :
                     \A j \in 1..Len(rows) :
                       /\ NullAsZero(rows[j]) <= NullAsZero(rows[i])
                       /\ NullAsZero(rows[j]) = NullAsZero(rows[i]) => i <= j
       IN << rows[best] >> \o BestFirst(Without(rows, best), n - 1)

\* C15: topHighRisk is the first 10 of all prediction records ordered by
\* prob_high descending with null counted as 0, records of equal prob_high
\* in the order they were read (0.9, 0.1, 0.9, 0.5 gives the first 0.9,
\* the second 0.9, 0.5, 0.1).
C15_TopTenByProbHighStable ==
  OverviewDone =>
    /\ [k \in 1..Len(overview.topHighRisk) |-> Bare(overview.topHighRisk[k])]
         = BestFirst(history, 10)
    /\ Len(overview.topHighRisk) <= 10

C15_Witness ==
  /\ OverviewDone
  /\ Len(history) = 11 /\ Len(overview.topHighRisk) = 10
  /\ history[1].prob_high = 1 /\ history[2].prob_high = 9
  /\ history[3].prob_high = 1 /\ history[11].prob_high = 9
  /\ overview.topHighRisk[1].prediction_date = 2
  /\ overview.topHighRisk[2].prediction_date = 11
  /\ overview.topHighRisk[3].prediction_date = 1
  /\ \A k \in 1..10 : overview.topHighRisk[k].prediction_date # 10

RECURSIVE SumOver(_, _)
SumOver(rows, indices) ==
  IF indices = {} THEN 0
  ELSE LET i == CHOOSE x \in indices : TRUE IN
       rows[i].prob_high + SumOver(rows, indices \ { i })

\* C16: avgProbHigh is the sum of prob_high over all prediction records,
\* a null adding nothing, divided by the number of all records, those with
\* a null prob_high included; it is null, not 0, when there is no record.
C16_AverageOverAllRecords ==
  OverviewDone =>
    IF Len(history) = 0
    THEN overview.avgProbHigh.null
    ELSE /\ ~overview.avgProbHigh.null
         /\ overview.avgProbHigh.sum =
              SumOver(history, { i \in 1..Len(history) :
                                   history[i].prob_high # NullNumber })
         /\ overview.avgProbHigh.count = Len(history)

C16_Witness ==
  /\ OverviewDone
  /\ Len(history) = 3
  /\ history[1].prob_high = 1
  /\ history[2].prob_high = NullNumber
  /\ history[3].prob_high = 5
  /\ overview.avgProbHigh = [null |-> FALSE, sum |-> 6, count |-> 3]

\* the suppliers whose latest prediction is in category c
LatestIn(c) ==
  { overview.latestPredictions[k].supplier_id :
      k \in { j \in 1..Len(overview.latestPredictions) :
                LabelCategory(overview.latestPredictions[j].predicted_risk)
                  = c } }

\* the suppliers all of whose predictions are in category c
AlwaysIn(rows, c) ==
  { id \in SuppliersOf(rows) : Occurrences(rows, id, c) = Cardinality(RowsOf(rows, id)) }

\* the suppliers none of whose categories has more predictions than c
MostlyIn(rows, c) ==
  { id \in SuppliersOf(rows) :
      \A other \in CategorySet :
        Occurrences(rows, id, other) <= Occurrences(rows, id, c) }

\* every supplier has one prediction that is later than all its others
LatestIsUnique(rows) ==
  \A id \in SuppliersOf(rows) :
    \E i \in RowsOf(rows, id) :
      \A j \in RowsOf(rows, id) \ { i } :
        rows[j].prediction_date < rows[i].prediction_date

MaxFeatures == 4

\* ---- JSON values; an object keeps its entries in insertion order
JNumber(n) == [t |-> "number", n |-> n, s |-> Empty, entries |-> << >>]
JString(s) == [t |-> "string", n |-> 0, s |-> s, entries |-> << >>]
JNull == [t |-> "null", n |-> 0, s |-> Empty, entries |-> << >>]
JObject(entries) ==
  [t |-> "object", n |-> 0, s |-> Empty, entries |-> entries]
Entry(feature, value) == [feature |-> feature, value |-> value]

DigitChars == << "0", "1", "2", "3", "4", "5", "6", "7", "8", "9" >>
IsDigit(c) == \E d \in 1..10 : DigitChars[d] = c
DigitValue(c) == (CHOOSE d \in 1..10 : DigitChars[d] = c) - 1

\* the value of a run of decimal digits
RECURSIVE DigitsValue(_)
DigitsValue(s) ==
  IF s = << >> THEN 0
  ELSE 10 * DigitsValue(SubSeq(s, 1, Len(s) - 1)) + DigitValue(s[Len(s)])

\* ---- JSON.parse, for objects, strings, integers and null without white
\* space: the result of reading a value at position i of the text
ParseFailed == [ok |-> FALSE, value |-> JNull, next |-> 0]
Parsed(value, next) == [ok |-> TRUE, value |-> value, next |-> next]

\* the first position from i on that does not hold a digit
RECURSIVE EndOfDigits(_, _)
EndOfDigits(s, i) ==
  IF i <= Len(s) /\ IsDigit(s[i]) THEN EndOfDigits(s, i + 1) ELSE i

\* the position of the closing quote from i on, 0 when there is none
RECURSIVE ClosingQuote(_, _)
ClosingQuote(s, i) ==
  IF i > Len(s) THEN 0
  ELSE IF s[i] = "\"" THEN i
  ELSE ClosingQuote(s, i + 1)

T_null == << "n", "u", "l", "l" >>

\* the text holds the word at position i
HasAt(s, i, word) ==
  /\ i + Len(word) - 1 <= Len(s)
  /\ \A k \in 1..Len(word) : s[i + k - 1] = word[k]

RECURSIVE ParseValue(_, _)
RECURSIVE ParseMembers(_, _, _)

ParseNumber(s, i) ==
  LET start == IF s[i] = "-" THEN i + 1 ELSE i
      end == EndOfDigits(s, start)
  IN IF end = start THEN ParseFailed
     ELSE Parsed(JNumber(IF s[i] = "-"
                         THEN 0 - DigitsValue(SubSeq(s, start, end - 1))
                         ELSE DigitsValue(SubSeq(s, start, end - 1))),
                 end)

ParseString(s, i) ==
  LET close == ClosingQuote(s, i + 1) IN
  IF close = 0 THEN ParseFailed
  ELSE Parsed(JString(SubSeq(s, i + 1, close - 1)), close + 1)

ParseValue(s, i) ==
  IF i > Len(s) THEN ParseFailed
  ELSE IF s[i] = "{" THEN
    IF i + 1 <= Len(s) /\ s[i + 1] = "}"
    THEN Parsed(JObject(<< >>), i + 2)
    ELSE ParseMembers(s, i + 1, << >>)
  ELSE IF s[i] = "\"" THEN ParseString(s, i)
  ELSE IF s[i] = "-" \/ IsDigit(s[i]) THEN ParseNumber(s, i)
  ELSE IF HasAt(s, i, T_null) THEN Parsed(JNull, i + 4)
  ELSE ParseFailed

\* a key set twice keeps its first position and its last value
SetEntry(entries, feature, value) ==
  IF \E k \in 1..Len(entries) : entries[k].feature = feature
  THEN [k \in 1..Len(entries) |->
          IF entries[k].feature = feature THEN Entry(feature, value)
          ELSE entries[k]]
  ELSE Append(entries, Entry(feature, value))

\* the members of an object from position i on, after those in entries
ParseMembers(s, i, entries) ==
  IF i > Len(s) \/ s[i] # "\"" THEN ParseFailed
  ELSE
    LET key == ParseString(s, i) IN
    IF ~key.ok \/ key.next > Len(s) \/ s[key.next] # ":" THEN ParseFailed
    ELSE
      LET member == ParseValue(s, key.next + 1) IN
      IF ~member.ok \/ member.next > Len(s) THEN ParseFailed
      ELSE
        LET all == SetEntry(entries, key.value.s, member.value) IN
        IF s[member.next] = "}" THEN Parsed(JObject(all), member.next + 1)
        ELSE IF s[member.next] = "," THEN ParseMembers(s, member.next + 1, all)
        ELSE ParseFailed

\* JSON.parse(text): throws unless the whole text is one value
JSONparse(text) ==
  LET v == ParseValue(text, 1) IN
  IF v.ok /\ v.next = Len(text) + 1
  THEN [threw |-> FALSE, value |-> v.value]
  ELSE [threw |-> TRUE, value |-> JNull]

\* ---- JSON.stringify of a mapping, as the prediction job encodes it
StringifyNumber(n) ==
  IF n < 0 THEN << "-" >> \o NumberToText(0 - n) ELSE NumberToText(n)

StringifyValue(v) ==
  IF v.t = "number" THEN StringifyNumber(v.n)
  ELSE IF v.t = "string" THEN << "\"" >> \o v.s \o << "\"" >>
  ELSE T_null

RECURSIVE StringifyEntries(_)
StringifyEntries(entries) ==
  IF entries = << >> THEN << >>
  ELSE LET e == entries[Len(entries)]
           before == StringifyEntries(SubSeq(entries, 1, Len(entries) - 1))
       IN (IF before = << >> THEN << >> ELSE before \o << "," >>)
            \o << "\"" >> \o e.feature \o << "\"", ":" >>
            \o StringifyValue(e.value)

Stringify(entries) == << "{" >> \o StringifyEntries(entries) \o << "}" >>

\* ---- the shap_values column
RawNull == [type |-> "null", object |-> JNull, text |-> Empty]
RawObject(entries) ==
  [type |-> "object", object |-> JObject(entries), text |-> Empty]
RawText(text) == [type |-> "string", object |-> JNull, text |-> text]

\* !raw: null, or the empty text
Falsy(raw) == raw.type = "null" \/ (raw.type = "string" /\ raw.text = Empty)

parseShapValues(raw) ==
  IF Falsy(raw) THEN JObject(<< >>)
  ELSE IF raw.type = "string"
  THEN LET parsed == JSONparse(raw.text) IN
       IF parsed.threw THEN JObject(<< >>) ELSE parsed.value
  ELSE raw.object

\* ---- Number(value) and Number.isFinite
NaN == [finite |-> FALSE, n |-> 0]
Finite(n) == [finite |-> TRUE, n |-> n]

\* Number of a text: the empty text is 0, a decimal integer is its value,
\* any other text is NaN
NumberOfText(s) ==
  IF s = Empty THEN Finite(0)
  ELSE LET start == IF s[1] = "-" THEN 2 ELSE 1 IN
       IF start <= Len(s) /\ EndOfDigits(s, start) = Len(s) + 1
       THEN Finite(IF start = 2
                   THEN 0 - DigitsValue(SubSeq(s, 2, Len(s)))
                   ELSE DigitsValue(s))
       ELSE NaN

Number(value) ==
  IF value.t = "number" THEN Finite(value.n)
  ELSE IF value.t = "string" THEN NumberOfText(value.s)
  ELSE IF value.t = "null" THEN Finite(0)
  ELSE NaN

\* ---- Object.entries(value): throws a TypeError on null, lists the
\* characters of a text and nothing for a number
CharEntries(s) ==
  [k \in 1..Len(s) |-> Entry(NumberToText(k - 1), JString(<< s[k] >>))]

ObjectEntries(value) ==
  IF value.t = "null" THEN [threw |-> TRUE, entries |-> << >>]
  ELSE IF value.t = "object" THEN [threw |-> FALSE, entries |-> value.entries]
  ELSE IF value.t = "string"
  THEN [threw |-> FALSE, entries |-> CharEntries(value.s)]
  ELSE [threw |-> FALSE, entries |-> << >>]

\* ---- the ranking
Abs(n) == IF n < 0 THEN 0 - n ELSE n

\* .map(([feature, value]) => ({ feature, shap: Number(value) }))
\* .filter((x) => Number.isFinite(x.shap))
RECURSIVE FiniteEntries(_)
FiniteEntries(entries) ==
  IF entries = << >> THEN << >>
  ELSE LET x == Number(Head(entries).value) IN
       (IF x.finite
        THEN << [feature |-> Head(entries).feature, shap |-> x.n] >>
        ELSE << >>) \o FiniteEntries(Tail(entries))

\* .sort((a, b) => Math.abs(b.shap) - Math.abs(a.shap)), a stable sort
RECURSIVE InsertByMagnitude(_, _)
InsertByMagnitude(x, sorted) ==
  IF sorted = << >> THEN << x >>
  ELSE IF Abs(Head(sorted).shap) - Abs(x.shap) < 0 THEN << x >> \o sorted
  ELSE << Head(sorted) >> \o InsertByMagnitude(x, Tail(sorted))

RECURSIVE SortByMagnitude(_)
SortByMagnitude(xs) ==
  IF xs = << >> THEN << >>
  ELSE InsertByMagnitude(xs[Len(xs)],
                         SortByMagnitude(SubSeq(xs, 1, Len(xs) - 1)))

Ranked(entries) == SortByMagnitude(FiniteEntries(entries))

\* direction: x.shap >= 0 ? "increases" : "reduces"
Direction(n) == IF n >= 0 THEN "increases" ELSE "reduces"

WithDirection(xs) ==
  [k \in 1..Len(xs) |->
     [feature |-> xs[k].feature, shap |-> xs[k].shap,
      direction |-> Direction(xs[k].shap)]]

\* top of one summary: the first 3 by magnitude, whatever their sign
SummarySize == 3
TopFeatures(entries) == WithDirection(Slice(Ranked(entries), SummarySize))

\* ---- getLatest3ShapSummaries over the latest predictions
Prediction(id, date, payload) ==
  [supplier_id |-> id, prediction_date |-> date, payload |-> payload]

\* shap?.shap_values ?? null: no row stored for the prediction
NoRow == RawNull

RECURSIVE Summarise(_)
Summarise(latest3) ==
  IF latest3 = << >> THEN [rejected |-> FALSE, summaries |-> << >>]
  ELSE
    LET before == Summarise(SubSeq(latest3, 1, Len(latest3) - 1))
        p == latest3[Len(latest3)]
        listed == ObjectEntries(parseShapValues(p.payload))
    IN IF before.rejected THEN before
       ELSE IF listed.threw
       THEN [rejected |-> TRUE, summaries |-> << >>]
       ELSE [rejected |-> FALSE,
             summaries |->
               Append(before.summaries,
                      [supplier_id |-> p.supplier_id,
                       prediction_date |-> p.prediction_date,
                       top_features |-> TopFeatures(listed.entries)])]

LatestCount == 3

getLatest3ShapSummaries(predictions) ==
  LET result == Summarise(Slice(predictions, LatestCount)) IN
  [called |-> TRUE, rejected |-> result.rejected, error |-> "TypeError",
   summaries |-> result.summaries]

\* a query of getLatest3ShapSummaries returned an error
ShapStoreError ==
  [called |-> TRUE, rejected |-> TRUE, error |-> "Failed to fetch",
   summaries |-> << >>]

\* ---- ShapPage: the entries of the latest explanation of one supplier,
\* ranked, and the first 5 of each sign
DetailSize == 5

RECURSIVE Select(_, _)
Select(xs, positive) ==
  IF xs = << >> THEN << >>
  ELSE (IF (positive /\ Head(xs).shap > 0) \/ (~positive /\ Head(xs).shap < 0)
        THEN << Head(xs) >> ELSE << >>) \o Select(Tail(xs), positive)

\* getLatestShapForSupplier: the row of the supplier that comes first by
\* prediction_date descending
LatestOf(rows, id) ==
  CHOOSE i \in 1..Len(rows) :
    /\ rows[i].supplier_id = id
    /\ \A j \in 1..(i - 1) : rows[j].supplier_id # id

ShapPage(p) ==
  LET decoded == parseShapValues(p.payload)
      \* latest?.shap_values ?? {}
      listed == IF decoded.t = "null" THEN << >>
                ELSE ObjectEntries(decoded).entries
      shapEntries == Ranked(listed)
  IN [called |-> TRUE, supplier_id |-> p.supplier_id,
      shapEntries |-> shapEntries,
      increasing |-> Slice(Select(shapEntries, TRUE), DetailSize),
      reducing |-> Slice(Select(shapEntries, FALSE), DetailSize)]

\* ---- the payloads the ranker is run on
FeatureNames == << << "a" >>, << "b" >>, << "c" >>, << "d" >>, << "e" >>,
                   << "f" >> >>
T_x == << "x" >>
Contributions == { JNumber(5), JNumber(0 - 8), JNumber(1), JString(T_x), JNull }

\* the mappings of up to MaxFeatures features a, b, c, ...
Mappings ==
  { [k \in 1..Len(vs) |-> Entry(FeatureNames[k], vs[k])] :
      vs \in SeqsUpTo(Contributions, MaxFeatures) }

\* texts that are not the encoding of a mapping
T_notJson == << "n", "o", "t", " ", "j", "s", "o", "n" >>
T_seven == << "7" >>
T_quoted == << "\"", "a", "b", "\"" >>
Truncated(text) == SubSeq(text, 1, Len(text) - 1)
OtherTexts ==
  { Empty, T_notJson, T_null, T_seven, T_quoted,
    Truncated(Stringify(<< Entry(FeatureNames[1], JNumber(5)) >>)) }

Payloads ==
  { RawNull } \cup { RawObject(m) : m \in Mappings }
    \cup { RawText(Stringify(m)) : m \in Mappings }
    \cup { RawText(t) : t \in OtherTexts }

\* two well-formed payloads of other suppliers
GoodBefore ==
  RawObject(<< Entry(FeatureNames[1], JNumber(2)),
               Entry(FeatureNames[2], JNumber(0 - 3)) >>)
GoodAfter == RawText(Stringify(<< Entry(FeatureNames[3], JNumber(0 - 4)) >>))

\* the predictions by prediction_date descending: one prediction, three
\* predictions of which the second has any payload, or four predictions
LatestPredictions ==
  { << >> }
    \cup { << Prediction("S1", 3, p) >> : p \in Payloads }
    \cup { << Prediction("S1", 3, GoodBefore), Prediction("S2", 2, p),
              Prediction("S3", 1, GoodAfter) >> : p \in Payloads }
    \cup { << Prediction("S1", 4, GoodBefore), Prediction("S2", 3, NoRow),
              Prediction("S3", 2, GoodAfter),
              Prediction("S1", 1, GoodAfter) >> }

\* ---- the specification of the ranker
InitShap ==
  /\ PageIdle /\ OverviewIdle /\ UploadIdle /\ LaterIdle
  /\ explanations \in LatestPredictions
  /\ shap = NoShap

ShapSummaries ==
  /\ ~shap.summaries.called
  /\ shap' = [shap EXCEPT
                !.summaries = getLatest3ShapSummaries(explanations)]
  /\ UNCHANGED << explanations, pageVars, overviewVars, uploadVars,
               laterVars >>

ShapSummariesStoreFails ==
  /\ ~shap.summaries.called
  /\ shap' = [shap EXCEPT !.summaries = ShapStoreError]
  /\ UNCHANGED << explanations, pageVars, overviewVars, uploadVars,
               laterVars >>

\* ShapPage for the supplier of the k-th prediction
ShapPageRenders(k) ==
  /\ ~shap.detail.called
  /\ k \in 1..Len(explanations)
  /\ LET latest == LatestOf(explanations, explanations[k].supplier_id) IN
       shap' = [shap EXCEPT !.detail = ShapPage(explanations[latest])]
  /\ UNCHANGED << explanations, pageVars, overviewVars, uploadVars,
               laterVars >>

NextShap ==
  \/ ShapSummaries
  \/ ShapSummariesStoreFails
  \/ \E k \in 1..4 : ShapPageRenders(k)

SpecShap == InitShap /\ [][NextShap]_vars

\* ===================================================================
\* Properties of the explanation ranker.
\* ===================================================================
SummariesReturned == shap.summaries.called /\ ~shap.summaries.rejected

\* the entries of a mapping whose value is a number, in their order
RECURSIVE NumberEntries(_)
NumberEntries(entries) ==
  IF entries = << >> THEN << >>
  ELSE (IF Head(entries).value.t = "number" THEN << Head(entries) >>
        ELSE << >>) \o NumberEntries(Tail(entries))

\* the first n entries when the largest magnitude is taken first and, of
\* entries of equal magnitude, the one that comes first
RECURSIVE LargestFirst(_, _)
LargestFirst(entries, n) ==
  IF n = 0 \/ entries = << >> THEN << >>
  ELSE LET best == CHOOSE i \in 1..Len(entries) :
                     \A j \in 1..Len(entries) :
                       /\ Abs(entries[j].value.n) <= Abs(entries[i].value.n)
                       /\ Abs(entries[j].value.n) = Abs(entries[i].value.n)
                            => i <= j
       IN << entries[best] >> \o LargestFirst(Without(entries, best), n - 1)

Signed(entries) ==
  [k \in 1..Len(entries) |->
     [feature |-> entries[k].feature, shap |-> entries[k].value.n,
      direction |-> IF entries[k].value.n >= 0 THEN "increases"
                    ELSE "reduces"]]

\* C17: for a decoded contributions mapping the summary of a prediction
\* lists the first 3, and the detail page ranks all, of exactly the entries
\* whose value is a finite number, ordered by absolute magnitude
\* descending, each with direction increases when its value is >= 0 and
\* reduces otherwise; an empty mapping or one with no finite number gives
\* an empty list.
C17_RankedAreTheFiniteNumbers ==
  /\ SummariesReturned =>
       \A k \in 1..Len(shap.summaries.summaries) :
         explanations[k].payload.type = "object" =>
           shap.summaries.summaries[k].top_features =
             Signed(LargestFirst(
                      NumberEntries(explanations[k].payload.object.entries),
                      3))
  /\ shap.detail.called =>
       \A k \in 1..Len(explanations) :
         (k = LatestOf(explanations, shap.detail.supplier_id)
          /\ explanations[k].payload.type = "object") =>
           LET numbers ==
                 NumberEntries(explanations[k].payload.object.entries) IN
           WithDirection(shap.detail.shapEntries) =
             Signed(LargestFirst(numbers, Len(numbers)))

\* C18: a payload text that cannot be decoded into a mapping yields an
\* empty ranking and never an error: whatever payload one of the latest
\* predictions has, getLatest3ShapSummaries returns (unless the store
\* itself reports an error) one summary per prediction, and the summaries
\* of the other predictions are the rankings of their own payloads.
C18_BadPayloadNeverFailsTheSummaries ==
  (shap.summaries.called /\ shap.summaries # ShapStoreError) =>
    /\ ~shap.summaries.rejected
    /\ Len(shap.summaries.summaries) =
         (IF Len(explanations) < 3 THEN Len(explanations) ELSE 3)
    /\ \A k \in 1..Len(shap.summaries.summaries) :
         /\ shap.summaries.summaries[k].supplier_id
              = explanations[k].supplier_id
         /\ explanations[k].payload = GoodBefore =>
              Len(shap.summaries.summaries[k].top_features) = 2
         /\ explanations[k].payload = GoodAfter =>
              Len(shap.summaries.summaries[k].top_features) = 1
         /\ (explanations[k].payload.type = "string"
             /\ explanations[k].payload.text \in OtherTexts) =>
              shap.summaries.summaries[k].top_features = << >>

\* ===================================================================
\* The CSV upload route (POST /api/supabase/upload-csv), from the result of
\* Papa.parse on: parsed.meta.fields are the header names as written and
\* parsed.data the rows, each a mapping from header name to cell text.
\* ===================================================================

\* ---- bounds: data rows of an upload, required columns left out of it
MaxCsvRows == 2
MaxMissing == 2

\* the column names of supplier_risk_master the route writes
Column ==
  [supplier_id |-> << "s", "u", "p", "p", "l", "i", "e", "r", "_", "i",
       "d" >>,
   date |-> << "d", "a", "t", "e" >>,
   on_time_delivery_rate |-> << "o", "n", "_", "t", "i", "m", "e", "_",
       "d", "e", "l", "i", "v", "e", "r", "y", "_", "r", "a", "t", "e" >>,
   quality_score |-> << "q", "u", "a", "l", "i", "t", "y", "_", "s", "c",
       "o", "r", "e" >>,
   geopolitical_risk_score |-> << "g", "e", "o", "p", "o", "l", "i", "t",
       "i", "c", "a", "l", "_", "r", "i", "s", "k", "_", "s", "c", "o",
       "r", "e" >>,
   communication_score |-> << "c", "o", "m", "m", "u", "n", "i", "c", "a",
       "t", "i", "o", "n", "_", "s", "c", "o", "r", "e" >>,
   annual_spending_rupees |-> << "a", "n", "n", "u", "a", "l", "_", "s",
       "p", "e", "n", "d", "i", "n", "g", "_", "r", "u", "p", "e", "e",
       "s" >>,
   total_risk_score |-> << "t", "o", "t", "a", "l", "_", "r", "i", "s",
       "k", "_", "s", "c", "o", "r", "e" >>,
   risk_category |-> << "r", "i", "s", "k", "_", "c", "a", "t", "e", "g",
       "o", "r", "y" >>,
   industry_segment |-> << "i", "n", "d", "u", "s", "t", "r", "y", "_",
       "s", "e", "g", "m", "e", "n", "t" >>,
   supplier_size |-> << "s", "u", "p", "p", "l", "i", "e", "r", "_", "s",
       "i", "z", "e" >>,
   is_predicted |-> << "i", "s", "_", "p", "r", "e", "d", "i", "c", "t",
       "e", "d" >>]

REQUIRED_COLUMNS ==
  << Column.supplier_id, Column.date, Column.on_time_delivery_rate, Column.quality_score,
     Column.geopolitical_risk_score, Column.communication_score,
     Column.annual_spending_rupees, Column.total_risk_score, Column.risk_category,
     Column.industry_segment, Column.supplier_size >>

\* row[col] of a column the row has no cell for
Undefined == << "undefined" >>
Cell(row, col) == IF col \in DOMAIN row THEN row[col] ELSE Undefined

\* a numeric column of a record: null or a number
SqlNull == [null |-> TRUE, n |-> 0]
SqlNumber(n) == [null |-> FALSE, n |-> n]

\* ---- parseFloat(String(v)): leading white space skipped, an optional
\* sign, then the longest run of digits; Infinity is read as such; NaN when
\* no digit follows.  Fractions and exponents are not in the cells drawn.
T_Infinity == << "I", "n", "f", "i", "n", "i", "t", "y" >>

RECURSIVE trimStart(_)
trimStart(s) ==
  IF s # << >> /\ Head(s) \in WhiteSpace THEN trimStart(Tail(s)) ELSE s

parseFloat(text) ==
  LET s == trimStart(text)
      negative == s # << >> /\ s[1] = "-"
      signed == s # << >> /\ (s[1] = "-" \/ s[1] = "+")
      start == IF signed THEN 2 ELSE 1
      end == EndOfDigits(s, start)
  IN IF HasAt(s, start, T_Infinity) THEN NaN
     ELSE IF end = start THEN NaN
     ELSE Finite(IF negative THEN 0 - DigitsValue(SubSeq(s, start, end - 1))
                 ELSE DigitsValue(SubSeq(s, start, end - 1)))

\* toNum: empty, null and undefined give null, as does any cell parseFloat
\* reads no finite number from
toNumEmptyIsZero(v) ==
  IF v = Null \/ v = Undefined THEN SqlNull
  ELSE IF v = Empty THEN SqlNumber(0)
  ELSE LET n == parseFloat(v) IN
       IF n.finite THEN SqlNumber(n.n) ELSE SqlNull

toNum(v) ==
  IF v = Null \/ v = Undefined \/ v = Empty THEN SqlNull
  ELSE LET n == parseFloat(v) IN
       IF n.finite THEN SqlNumber(n.n) ELSE SqlNull

\* row[col] ?? null
OrNull(v) == IF v = Undefined THEN Null ELSE v

\* the record inserted for one row
Record(row) ==
  [supplier_id |-> Cell(row, Column.supplier_id),
   date |-> Cell(row, Column.date),
   on_time_delivery_rate |-> toNum(Cell(row, Column.on_time_delivery_rate)),
   quality_score |-> toNum(Cell(row, Column.quality_score)),
   geopolitical_risk_score |-> toNum(Cell(row, Column.geopolitical_risk_score)),
   communication_score |-> toNum(Cell(row, Column.communication_score)),
   annual_spending_rupees |-> toNum(Cell(row, Column.annual_spending_rupees)),
   total_risk_score |-> toNum(Cell(row, Column.total_risk_score)),
   risk_category |-> OrNull(Cell(row, Column.risk_category)),
   industry_segment |-> OrNull(Cell(row, Column.industry_segment)),
   supplier_size |-> OrNull(Cell(row, Column.supplier_size)),
   is_predicted |-> FALSE]

\* (parsed.meta.fields ?? []).map((h) => String(h).trim())
Headers(fields) == [k \in 1..Len(fields) |-> trim(fields[k])]

\* (parsed.data ?? []).filter((r) => r && Object.keys(r).length > 0)
RECURSIVE NonEmptyRows(_)
NonEmptyRows(data) ==
  IF data = << >> THEN << >>
  ELSE (IF DOMAIN Head(data) # {} THEN << Head(data) >> ELSE << >>)
         \o NonEmptyRows(Tail(data))

\* REQUIRED_COLUMNS.filter((col) => !headers.includes(col))
RECURSIVE MissingFrom(_, _)
MissingFrom(headers, required) ==
  IF required = << >> THEN << >>
  ELSE (IF \E k \in 1..Len(headers) : headers[k] = Head(required)
        THEN << >> ELSE << Head(required) >>)
         \o MissingFrom(headers, Tail(required))

\* Array.prototype.join(", ")
RECURSIVE Join(_)
Join(texts) ==
  IF texts = << >> THEN Empty
  ELSE IF Len(texts) = 1 THEN texts[1]
  ELSE texts[1] \o << ",", " " >> \o Join(Tail(texts))

\* the error texts of the answers; StoreError and ReadFailed stand for
\* the message of the store and of the thrown error
RouteError ==
  [NoFileProvided |-> << "N", "o", " ", "f", "i", "l", "e", " ", "p", "r",
       "o", "v", "i", "d", "e", "d" >>,
   MissingRequiredColumns |-> << "M", "i", "s", "s", "i", "n", "g", " ",
       "r", "e", "q", "u", "i", "r", "e", "d", " ", "c", "o", "l", "u",
       "m", "n", "s", ":", " " >>,
   NoDataRowsFound |-> << "N", "o", " ", "d", "a", "t", "a", " ", "r",
       "o", "w", "s", " ", "f", "o", "u", "n", "d" >>,
   StoreError |-> << "n", "u", "l", "l", " ", "v", "a", "l", "u", "e",
       " ", "i", "n", " ", "c", "o", "l", "u", "m", "n" >>,
   ReadFailed |-> << "F", "a", "i", "l", "e", "d", " ", "t", "o", " ",
       "p", "a", "r", "s", "e", " ", "b", "o", "d", "y", " ", "a", "s",
       " ", "F", "o", "r", "m", "D", "a", "t", "a", "." >>]

Refused(status, error) ==
  [answered |-> TRUE, status |-> status, success |-> FALSE,
   error |-> error, inserted |-> 0]
Inserted(n) ==
  [answered |-> TRUE, status |-> 200, success |-> TRUE, error |-> Empty,
   inserted |-> n]

\* POST, up to the insert: the response it returns without touching the
\* store, or the batch of records it is about to insert
Prepared(req) ==
  LET headers == Headers(req.fields)
      rows == NonEmptyRows(req.data)
      missing == MissingFrom(headers, REQUIRED_COLUMNS)
  IN IF ~req.file THEN [insert |-> FALSE, records |-> << >>,
                        response |-> Refused(400, RouteError.NoFileProvided)]
     ELSE IF Len(missing) > 0
     THEN [insert |-> FALSE, records |-> << >>,
           response |-> Refused(400, RouteError.MissingRequiredColumns
                                       \o Join(missing))]
     ELSE IF Len(rows) = 0
     THEN [insert |-> FALSE, records |-> << >>,
           response |-> Refused(400, RouteError.NoDataRowsFound)]
     ELSE [insert |-> TRUE,
           records |-> [k \in 1..Len(rows) |-> Record(rows[k])],
           response |-> Inserted(Len(rows))]

\* ---- the uploads the route is run on
T_S1 == << "S", "1" >>
T_day == << "2", "0", "2", "4", "-", "0", "1", "-", "3", "1" >>
T_five == << "5" >>
T_text == << "x" >>
T_true == << "t", "r", "u", "e" >>
T_twelve == << "1", "2" >>
T_minusThree == << "-", "3" >>
T_abc == << "a", "b", "c" >>
T_twelveAbc == << "1", "2", "a", "b", "c" >>

\* cells of on_time_delivery_rate; Undefined stands for a row cut short
\* before that cell
RateCells ==
  { Empty, T_twelve, T_minusThree, T_abc, T_twelveAbc, T_Infinity,
    Undefined }

NumericColumns ==
  { Column.on_time_delivery_rate, Column.quality_score, Column.geopolitical_risk_score,
    Column.communication_score, Column.annual_spending_rupees, Column.total_risk_score }

CellOf(column, rate) ==
  IF column = Column.on_time_delivery_rate THEN rate
  ELSE IF column = Column.supplier_id THEN T_S1
  ELSE IF column = Column.date THEN T_day
  ELSE IF column \in NumericColumns THEN T_five
  ELSE IF column = Column.is_predicted THEN T_true
  ELSE T_text

\* the row Papa.parse yields under the given header names
RowUnder(fields, rate) ==
  [h \in { fields[k] : k \in 1..Len(fields) }
         \ (IF rate = Undefined THEN { Column.on_time_delivery_rate } ELSE {})
     |-> CellOf(trim(h), rate)]

\* the required columns without those at the positions left out
RECURSIVE Leaving(_, _)
Leaving(out, k) ==
  IF k > Len(REQUIRED_COLUMNS) THEN << >>
  ELSE (IF k \in out THEN << >> ELSE << REQUIRED_COLUMNS[k] >>)
         \o Leaving(out, k + 1)

\* positions of the columns an upload may leave out: supplier_id, date,
\* on_time_delivery_rate, risk_category, supplier_size
Omissible == { 1, 2, 3, 9, 11 }

\* header lines: up to MaxMissing required columns left out, or all of
\* them present with the first one padded, or with one more column
HeaderLines ==
  { Leaving(out, 1) :
      out \in { o \in SUBSET Omissible : Cardinality(o) <= MaxMissing } }
    \cup { << << " " >> \o Column.supplier_id >> \o Tail(REQUIRED_COLUMNS),
           Append(REQUIRED_COLUMNS, Column.is_predicted) }

Request(file, fields, data) ==
  [file |-> file, fields |-> fields, data |-> data]

Requests ==
  { Request(FALSE, << >>, << >>) }
    \cup { Request(TRUE, fields,
                   [k \in 1..Len(rates) |-> RowUnder(fields, rates[k])]) :
             fields \in HeaderLines,
             rates \in SeqsUpTo(RateCells, MaxCsvRows) }

NoResponse ==
  [answered |-> FALSE, status |-> 0, success |-> FALSE, error |-> Empty,
   inserted |-> 0]

\* a row the table already holds
ExistingRecord == Record(RowUnder(REQUIRED_COLUMNS, T_five))

\* ---- the specification of the upload route
InitUpload ==
  /\ PageIdle /\ OverviewIdle /\ ShapIdle /\ LaterIdle
  /\ \E req \in Requests :
       csv = [posted |-> FALSE, request |-> req, response |-> NoResponse]
  /\ master = << ExistingRecord >>

\* POST with a store that accepts the batch
Upload ==
  /\ ~csv.posted
  /\ LET prepared == Prepared(csv.request) IN
       /\ csv' = [csv EXCEPT !.posted = TRUE,
                             !.response = prepared.response]
       /\ master' = IF prepared.insert THEN master \o prepared.records
                    ELSE master
  /\ UNCHANGED << pageVars, overviewVars, shapVars,
               laterVars >>

\* POST with a store that refuses the batch: insert(records) is one
\* statement, none of its rows is stored
UploadStoreRejects ==
  /\ ~csv.posted
  /\ Prepared(csv.request).insert
  /\ csv' = [csv EXCEPT !.posted = TRUE,
                        !.response = Refused(400, RouteError.StoreError)]
  /\ UNCHANGED << master, pageVars, overviewVars, shapVars,
               laterVars >>

\* POST whose body cannot be read: the catch answers 500
UploadThrows ==
  /\ ~csv.posted
  /\ csv' = [csv EXCEPT !.posted = TRUE,
                        !.response = Refused(500, RouteError.ReadFailed)]
  /\ UNCHANGED << master, pageVars, overviewVars, shapVars,
               laterVars >>

NextUpload == Upload \/ UploadStoreRejects \/ UploadThrows

SpecUpload == InitUpload /\ [][NextUpload]_vars

\* ===================================================================
\* Properties of the CSV upload route.
\* ===================================================================
\* the required columns no header name of the upload stands for
MissingColumns ==
  { REQUIRED_COLUMNS[c] : c \in
      { i \in 1..Len(REQUIRED_COLUMNS) :
          \A k \in 1..Len(csv.request.fields) :
            trim(csv.request.fields[k]) # REQUIRED_COLUMNS[i] } }

\* the route answered from its own checks and the store took the batch
AnsweredByRoute ==
  /\ csv.posted /\ csv.request.file
  /\ csv.response.error \notin { RouteError.StoreError, RouteError.ReadFailed }

\* the rate cell of the k-th data row, Undefined when the row has none
RateCell(k) ==
  LET row == csv.request.data[k] IN
  IF \E h \in DOMAIN row : trim(h) = Column.on_time_delivery_rate
  THEN row[CHOOSE h \in DOMAIN row : trim(h) = Column.on_time_delivery_rate]
  ELSE Undefined

C19_AppliedWitness ==
  /\ AnsweredByRoute /\ csv.response.success
  /\ Len(master) = 3
  /\ RateCell(1) = Empty /\ RateCell(2) = T_abc
  /\ master[2].on_time_delivery_rate = SqlNull
  /\ master[3].on_time_delivery_rate = SqlNull
  /\ ~master[3].is_predicted

\* ===================================================================
\* The success follow-up (upload/page.tsx, api/predictions/recent):
\* triggerDag captures the trigger time, poll hands it to
\* fetchRecentPredictions once the run replied success, and the route reads
\* risk_prediction_history.  A timestamp is a whole number of seconds of
\* one minute; the poll loop is reduced to how it ends.
\* ===================================================================
\* ---- bounds: seconds on the clock, batches the prediction job writes,
\* runs triggered
MaxClock == 3
MaxBatches == 2
MaxFollowUps == 1

FollowUps == 1..MaxFollowUps

\* .limit(100)
RecentLimit == 100

\* rows the prediction job writes at once
BatchSizes == { 1, RecentLimit + 1 }

\* ---- new Date().toISOString() at second t
IsoPrefix ==
  << "2", "0", "2", "6", "-", "1", "1", "-", "0", "3", "T", "0", "0", ":",
     "0", "0", ":", "0" >>
IsoSuffix == << ".", "0", "0", "0", "Z" >>
toISOString(t) == IsoPrefix \o NumberToText(t) \o IsoSuffix

\* ---- encodeURIComponent: a character outside the unreserved set is
\* percent-encoded
EncodeChar(c) ==
  IF c = ":" THEN << "%", "3", "A" >>
  ELSE IF c = "+" THEN << "%", "2", "B" >>
  ELSE IF c = " " THEN << "%", "2", "0" >>
  ELSE << c >>

RECURSIVE encodeURIComponent(_)
encodeURIComponent(s) ==
  IF s = << >> THEN << >>
  ELSE EncodeChar(Head(s)) \o encodeURIComponent(Tail(s))

\* ---- searchParams.get("since"): percent-decoding, "+" read as a space
DecodeHex(a, b) ==
  IF a = "3" /\ b = "A" THEN ":"
  ELSE IF a = "2" /\ b = "B" THEN "+"
  ELSE " "

RECURSIVE searchParamsGet(_)
searchParamsGet(s) ==
  IF s = << >> THEN << >>
  ELSE IF Head(s) = "%" /\ Len(s) >= 3
  THEN << DecodeHex(s[2], s[3]) >> \o searchParamsGet(SubSeq(s, 4, Len(s)))
  ELSE IF Head(s) = "+" THEN << " " >> \o searchParamsGet(Tail(s))
  ELSE << Head(s) >> \o searchParamsGet(Tail(s))

\* ---- the store reading a timestamp text; NullNumber when it is none
TimestampValue(text) ==
  LET n == Len(text) - Len(IsoPrefix) - Len(IsoSuffix) IN
  IF n >= 1
     /\ SubSeq(text, 1, Len(IsoPrefix)) = IsoPrefix
     /\ SubSeq(text, Len(text) - Len(IsoSuffix) + 1, Len(text)) = IsoSuffix
     /\ \A i \in 1..n : IsDigit(text[Len(IsoPrefix) + i])
  THEN DigitsValue(SubSeq(text, Len(IsoPrefix) + 1, Len(IsoPrefix) + n))
  ELSE NullNumber

\* ---- a row of risk_prediction_history: the n-th row written, at second t
PredictionRow(n, t) == [id |-> n, prediction_date |-> t]

\* .order("prediction_date", { ascending: false }): the rows of the newest
\* second first, then those of the second before, down to second 0; rows of
\* one second keep the order of the table
RECURSIVE NewestFirstFrom(_, _)
NewestFirstFrom(rows, t) ==
  IF t < 0 THEN << >>
  ELSE SelectSeq(rows, LAMBDA row : row.prediction_date = t)
         \o NewestFirstFrom(rows, t - 1)

OrderNewestFirst(rows) == NewestFirstFrom(rows, MaxClock)

\* .gte("prediction_date", since)
GteAfter(rows, since) ==
  SelectSeq(rows, LAMBDA row : row.prediction_date > since)

Gte(rows, since) ==
  SelectSeq(rows, LAMBDA row : row.prediction_date >= since)

\* ---- GET /api/predictions/recent
RecentError == [status |-> 500, success |-> FALSE, predictions |-> << >>]
RecentAnswer(predictions) ==
  [status |-> 200, success |-> TRUE, predictions |-> predictions]
NoRecentAnswer == [status |-> 0, success |-> FALSE, predictions |-> << >>]

\* since is the decoded query parameter, Null when the url has none
RecentRoute(since, table) ==
  IF since = Null \/ since = Empty
  THEN RecentAnswer(Slice(OrderNewestFirst(table), RecentLimit))
  ELSE IF TimestampValue(since) = NullNumber THEN RecentError
  ELSE RecentAnswer(Slice(OrderNewestFirst(Gte(table, TimestampValue(since))),
                          RecentLimit))

\* ---- the follow-up of one run: the closure of pollDagStatus holds
\* triggerTime; at is the second it was taken at
IdleFollowUp ==
  [phase |-> "idle", at |-> 0, triggerTime |-> Empty, since |-> Empty,
   response |-> NoRecentAnswer]

\* the table before any run: one prediction of an earlier day
EarlierPredictions == << PredictionRow(1, 0) >>

InitRecent ==
  /\ PageIdle /\ ShapIdle /\ UploadIdle
  /\ overview = NoOverview /\ reads = NoReads /\ labels = NoLabels
  /\ history = EarlierPredictions
  /\ recent = [started |-> TRUE, now |-> 1, batches |-> 0,
               run |-> [f \in FollowUps |-> IdleFollowUp],
               recentPredictions |-> << >>]

RecentUnchanged ==
  UNCHANGED << pageVars, overview, shapVars, uploadVars, reads, labels >>

\* a second passes
Tick ==
  /\ recent.now < MaxClock
  /\ recent' = [recent EXCEPT !.now = @ + 1]
  /\ UNCHANGED history /\ RecentUnchanged

\* the prediction job writes n rows, dated now
JobWrites(n) ==
  /\ recent.batches < MaxBatches
  /\ history' = history \o [k \in 1..n |->
                              PredictionRow(Len(history) + k, recent.now)]
  /\ recent' = [recent EXCEPT !.batches = @ + 1]
  /\ RecentUnchanged

\* triggerDag: const triggerTime = new Date().toISOString(); the button is
\* disabled while an earlier run is being polled
CaptureTriggerTime(f) ==
  /\ recent.run[f].phase = "idle"
  /\ \A g \in FollowUps :
       /\ g < f => recent.run[g].phase # "idle"
       /\ recent.run[g].phase # "polling"
  /\ recent' = [recent EXCEPT
                  !.run[f] = [IdleFollowUp EXCEPT
                                     !.phase = "polling", !.at = recent.now,
                                     !.triggerTime = toISOString(recent.now)]]
  /\ UNCHANGED history /\ RecentUnchanged

\* the poll loop ends without a success reply: no follow-up
PollEndsOtherwise(f) ==
  /\ recent.run[f].phase = "polling"
  /\ recent' = [recent EXCEPT !.run[f].phase = "ended"]
  /\ UNCHANGED history /\ RecentUnchanged

\* poll reads state success: setTriggering(false); await refreshUnpredicted()
SuccessObserved(f) ==
  /\ recent.run[f].phase = "polling"
  /\ recent' = [recent EXCEPT !.run[f].phase = "refreshUnpredicted"]
  /\ UNCHANGED history /\ RecentUnchanged

\* fetchRecentPredictions(triggerTime) issues its request
fetchRecentPredictions(f) ==
  /\ recent.run[f].phase = "refreshUnpredicted"
  /\ recent' = [recent EXCEPT
                  !.run[f].phase = "fetching",
                  !.run[f].since =
                     encodeURIComponent(recent.run[f].triggerTime)]
  /\ UNCHANGED history /\ RecentUnchanged

\* the route answers from the table as it is now
RecentRouteAnswers(f) ==
  /\ recent.run[f].phase = "fetching"
  /\ recent' = [recent EXCEPT
                  !.run[f].phase = "answered",
                  !.run[f].response =
                     RecentRoute(searchParamsGet(recent.run[f].since),
                                 history)]
  /\ UNCHANGED history /\ RecentUnchanged

\* the store reports an error, or the route throws
RecentRouteFails(f) ==
  /\ recent.run[f].phase = "fetching"
  /\ recent' = [recent EXCEPT !.run[f].phase = "answered",
                              !.run[f].response = RecentError]
  /\ UNCHANGED history /\ RecentUnchanged

\* if (data.success) setRecentPredictions(data.predictions || [])
FetchRecentSettles(f) ==
  /\ recent.run[f].phase = "answered"
  /\ recent' = [recent EXCEPT
                  !.run[f].phase = "shown",
                  !.run[f].response = NoRecentAnswer,
                  !.recentPredictions =
                     IF recent.run[f].response.success
                     THEN recent.run[f].response.predictions ELSE @]
  /\ UNCHANGED history /\ RecentUnchanged

NextRecent ==
  \/ Tick
  \/ \E n \in BatchSizes : JobWrites(n)
  \/ \E f \in FollowUps : CaptureTriggerTime(f)
  \/ \E f \in FollowUps : PollEndsOtherwise(f)
  \/ \E f \in FollowUps : SuccessObserved(f)
  \/ \E f \in FollowUps : fetchRecentPredictions(f)
  \/ \E f \in FollowUps : RecentRouteAnswers(f)
  \/ \E f \in FollowUps : RecentRouteFails(f)
  \/ \E f \in FollowUps : FetchRecentSettles(f)

SpecRecent == InitRecent /\ [][NextRecent]_vars

\* ===================================================================
\* Properties of the success follow-up.
\* ===================================================================
RowSet(rows) == { rows[i] : i \in 1..Len(rows) }

\* rows of one answer: dated at or after second t, newest first, no more
\* than 100, each a row of the table and none twice, and a row of the table
\* dated at or after t is left out only when 100 rows at least as new are in
NewestSince(got, table, t) ==
  /\ Len(got) <= 100
  /\ \A i \in 1..Len(got) : got[i].prediction_date >= t
  /\ \A i \in 1..(Len(got) - 1) :
       got[i].prediction_date >= got[i + 1].prediction_date
  /\ RowSet(got) \subseteq RowSet(table)
  /\ Cardinality(RowSet(got)) = Len(got)
  /\ \A row \in RowSet(table) \ RowSet(got) :
       row.prediction_date >= t =>
         (Len(got) = 100 /\ row.prediction_date <= got[100].prediction_date)

\* C24: the re-fetch of a run is issued only after its success reply was
\* read, and asks for the predictions since the trigger time taken when
\* that run was triggered: the records its follow-up stores in
\* recentPredictions are dated at or after that time, newest first, at most
\* 100, and nothing else changes recentPredictions.
C24_RefetchSinceTriggerTime ==
  /\ [](recent.recentPredictions # << >> =>
          \E f \in FollowUps :
            /\ recent.run[f].phase = "shown"
            /\ \A i \in 1..Len(recent.recentPredictions) :
                 recent.recentPredictions[i].prediction_date
                   >= recent.run[f].at)
  /\ [][\A f \in FollowUps :
          LET before == recent.run[f]
              after == recent'.run[f]
          IN
          /\ (after.phase = "fetching" /\ before.phase # "fetching") =>
               before.phase = "refreshUnpredicted"
          /\ (after.phase = "refreshUnpredicted"
                /\ before.phase # "refreshUnpredicted") =>
               before.phase = "polling"
          /\ after.phase # "idle" => after.at <= recent.now
          /\ before.phase # "idle" => after.at = before.at
          /\ (before.phase = "fetching" /\ after.phase = "answered"
                /\ after.response.success) =>
               NewestSince(after.response.predictions, history, before.at)
          /\ (before.phase = "answered" /\ after.phase # "answered") =>
               recent'.recentPredictions =
                 (IF before.response.success
                  THEN before.response.predictions
                  ELSE recent.recentPredictions)
          /\ (\A g \in FollowUps : recent.run[g].phase # "answered") =>
               recent'.recentPredictions = recent.recentPredictions]_vars

\* the follow-up of a run triggered at second 2 stored the 100 newest of
\* more than 100 rows written since, of two different seconds, and left out
\* the older rows of the table
C24_Witness ==
  \E f \in FollowUps :
    /\ recent.run[f].phase = "shown" /\ recent.run[f].at = 2
    /\ Len(recent.recentPredictions) = 100
    /\ recent.recentPredictions[1].prediction_date = 3
    /\ recent.recentPredictions[100].prediction_date = 2
    /\ Len(history) > 102
    /\ \E i \in 1..Len(history) : history[i].prediction_date < 2


\* ===================================================================
\* getExecutiveOverview beside a writer: its five queries are sent
\* together and each is answered by the store on its own, from the table
\* as it is when the store runs it; the pipeline inserts predictions
\* meanwhile.
\* ===================================================================
MaxInserts == 1
MaxSnapshotRows == 1

\* predictions already stored, and the ones the pipeline writes next
StoredRows ==
  { Row(SupplierIds[i], 1, l, NullNumber) :
      i \in 1..Len(SupplierIds), l \in { L_high_risk, L_LowRisk } }
InsertedRows ==
  { Row(SupplierIds[i], 2, l, NullNumber) :
      i \in 1..Len(SupplierIds), l \in { L_high_risk, L_LowRisk } }
StoredHistories == SeqsUpTo(StoredRows, MaxSnapshotRows)

\* .select("*", { count: "exact", head: true }) on risk_prediction_history
getTotalPredictionsDistinct(table) == Cardinality(SuppliersOf(table))
getTotalPredictions(table) == Len(table)

\* a query of the Promise.all that the store has not answered yet, and
\* one it answered with data when `at` inserts had been made
Unanswered(empty) == [done |-> FALSE, data |-> empty, at |-> 0]
Answered(data, at) == [done |-> TRUE, data |-> data, at |-> at]

InitInterleaved ==
  /\ PageIdle /\ ShapIdle /\ UploadIdle
  /\ recent = NoRecent /\ labels = NoLabels
  /\ history \in StoredHistories
  /\ overview = NoOverview
  /\ reads = [started |-> TRUE, inserts |-> 0,
              profiles |-> Unanswered(<< >>),
              latestPredictions |-> Unanswered(<< >>),
              allPredictions |-> Unanswered(<< >>),
              totalSuppliers |-> Unanswered(0),
              totalPredictions |-> Unanswered(0)]

InterleavedUnchanged ==
  UNCHANGED << pageVars, shapVars, uploadVars, recent, labels >>

\* the pipeline stores one more prediction
InsertPrediction(row) ==
  /\ reads.started
  /\ reads.inserts < MaxInserts
  /\ history' = Append(history, row)
  /\ reads' = [reads EXCEPT !.inserts = @ + 1]
  /\ UNCHANGED overview
  /\ InterleavedUnchanged

ReadProfiles ==
  /\ reads.started /\ ~reads.profiles.done
  /\ reads' = [reads EXCEPT !.profiles = Answered(Profiles, reads.inserts)]
  /\ UNCHANGED << history, overview >>
  /\ InterleavedUnchanged

ReadLatestPredictions ==
  /\ reads.started /\ ~reads.latestPredictions.done
  /\ reads' = [reads EXCEPT !.latestPredictions =
                 Answered(getLatestPredictionsPerSupplier(history),
                          reads.inserts)]
  /\ UNCHANGED << history, overview >>
  /\ InterleavedUnchanged

ReadAllPredictions ==
  /\ reads.started /\ ~reads.allPredictions.done
  /\ reads' = [reads EXCEPT !.allPredictions =
                 Answered(history, reads.inserts)]
  /\ UNCHANGED << history, overview >>
  /\ InterleavedUnchanged

ReadTotalSuppliers ==
  /\ reads.started /\ ~reads.totalSuppliers.done
  /\ reads' = [reads EXCEPT !.totalSuppliers =
                 Answered(getTotalSuppliers(RiskMasterIds), reads.inserts)]
  /\ UNCHANGED << history, overview >>
  /\ InterleavedUnchanged

ReadTotalPredictions ==
  /\ reads.started /\ ~reads.totalPredictions.done
  /\ reads' = [reads EXCEPT !.totalPredictions =
                 Answered(getTotalPredictions(history), reads.inserts)]
  /\ UNCHANGED << history, overview >>
  /\ InterleavedUnchanged

AllAnswered ==
  /\ reads.profiles.done /\ reads.latestPredictions.done
  /\ reads.allPredictions.done /\ reads.totalSuppliers.done
  /\ reads.totalPredictions.done

\* Promise.all resolved: the rest of getExecutiveOverview runs on the five
\* results
OverviewResolves ==
  /\ reads.started /\ AllAnswered
  /\ ~overview.called
  /\ overview' = getExecutiveOverview(
                    reads.profiles.data, reads.latestPredictions.data,
                    reads.allPredictions.data, reads.totalSuppliers.data,
                    reads.totalPredictions.data)
  /\ UNCHANGED << history, reads >>
  /\ InterleavedUnchanged

NextInterleaved ==
  \/ \E row \in InsertedRows : InsertPrediction(row)
  \/ ReadProfiles
  \/ ReadLatestPredictions
  \/ ReadAllPredictions
  \/ ReadTotalSuppliers
  \/ ReadTotalPredictions
  \/ OverviewResolves

SpecInterleaved == InitInterleaved /\ [][NextInterleaved]_vars

\* the category counts of an overview, summed
CountedSuppliers(o) ==
  o.riskCounts.High + o.riskCounts.Medium + o.riskCounts.Low
    + o.riskCounts.Unknown

\* the total matches the records counted and averaged
TotalMatchesRecords(o) == o.totalPredictions = Len(o.allPredictions)
\* the latest-per-supplier set has as many suppliers as the counts sum to
LatestMatchesCounts(o) == Len(o.latestPredictions) = CountedSuppliers(o)

\* the three queries of risk_prediction_history were answered from the
\* same table
SameTable ==
  /\ reads.latestPredictions.at = reads.allPredictions.at
  /\ reads.allPredictions.at = reads.totalPredictions.at

\* the whole numbers from 0 to d, whichever way d lies
UpTo(d) == IF d >= 0 THEN 0..d ELSE d..0

\* C25: an overview is a consistent snapshot whenever no insert fell
\* between its queries of the history; one whose queries an insert
\* separated can report a total that differs from the number of records
\* counted and averaged, or a latest-per-supplier set with another number
\* of suppliers than the counts sum to, by no more than the inserted rows.
C25_InsertBetweenReadsBreaksSnapshot ==
  OverviewDone =>
    /\ SameTable => TotalMatchesRecords(overview)
                      /\ LatestMatchesCounts(overview)
    /\ overview.totalPredictions - Len(overview.allPredictions)
         = reads.totalPredictions.at - reads.allPredictions.at
    /\ Len(overview.latestPredictions) - CountedSuppliers(overview)
         \in UpTo(reads.latestPredictions.at - reads.allPredictions.at)

\* one insert, seen by the count but not by the records
C25_Witness ==
  /\ OverviewDone
  /\ reads.inserts = 1
  /\ ~TotalMatchesRecords(overview)
  /\ overview.totalPredictions = Len(overview.allPredictions) + 1

\* one insert of a new supplier, seen by the latest-per-supplier query but
\* not by the records the counts are made from
C25_LatestWitness ==
  /\ OverviewDone
  /\ reads.inserts = 1
  /\ ~LatestMatchesCounts(overview)
  /\ Len(overview.latestPredictions) = CountedSuppliers(overview) + 1

\* ===================================================================
\* The four places that sort a raw predicted_risk label into a category:
\* the tally of getExecutiveOverview, the counts of the predictions page,
\* RiskBadge, and the badge of the upload page's recent-predictions table.
\* ===================================================================
MaxPadding == 1

RECURSIVE Spaces(_)
Spaces(n) == IF n = 0 THEN Empty ELSE << " " >> \o Spaces(n - 1)

\* labels a predicted_risk column can hold: a word, what follows it, and
\* blanks around both
LabelWords ==
  { Empty, << "H", "i", "g", "h" >>, << "H", "I", "G", "H" >>,
    << "h", "i", "g", "h" >>, << "M", "e", "d", "i", "u", "m" >>,
    << "m", "e", "d", "i", "u", "m" >>, << "L", "o", "w" >>,
    << "l", "o", "w" >>, << "C", "r", "i", "t", "i", "c", "a", "l" >>,
    << "H", "i", "g", "h", "e", "r" >> }
LabelEndings ==
  { Empty, << "_", "r", "i", "s", "k" >>, << " ", "R", "i", "s", "k" >>,
    << "_", "R", "I", "S", "K" >>, << "-", "r", "i", "s", "k" >> }
RawLabels ==
  { Spaces(a) \o w \o e \o Spaces(b) :
      w \in LabelWords, e \in LabelEndings,
      a \in 0..MaxPadding, b \in 0..MaxPadding } \cup { Null }

NotYet == "none"

\* the aggregator: the tally of a supplier that a prediction is added to
AggregatorCategory(label) ==
  CASE TallyKey(label) = "high" -> "High"
    [] TallyKey(label) = "medium" -> "Medium"
    [] TallyKey(label) = "low" -> "Low"
    [] OTHER -> "Unknown"

\* PredictionsPage: the count whose filter keeps the row; a row no filter
\* keeps is in none of highCount, mediumCount, lowCount
PredictionsPageCategory(label) ==
  LET norm == trim(replaceAll(toLowerCase(IF label = Null THEN Empty
                                          ELSE label), "_", " "))
  IN IF norm = RiskLabel.high \/ norm = RiskLabel.highRisk THEN "High"
     ELSE IF norm = RiskLabel.medium \/ norm = RiskLabel.mediumRisk
     THEN "Medium"
     ELSE IF norm = RiskLabel.low \/ norm = RiskLabel.lowRisk THEN "Low"
     ELSE "Unknown"

\* RiskBadge: the badge variant riskHigh, riskMedium, riskLow or outline
RiskBadge(risk) ==
  LET normalized == trim(replaceAll(toLowerCase(IF risk = Null THEN Empty
                                                ELSE risk), "_", " "))
  IN IF normalized = RiskLabel.high \/ normalized = RiskLabel.highRisk
     THEN "High"
     ELSE IF normalized = RiskLabel.medium
               \/ normalized = RiskLabel.mediumRisk
     THEN "Medium"
     ELSE IF normalized = RiskLabel.low \/ normalized = RiskLabel.lowRisk
     THEN "Low"
     ELSE "Unknown"

\* the upload page's recent-predictions badge: the colour of the span.
\* predicted_risk?.toLowerCase() of a null label is undefined, which is
\* falsy in both tests
RecentBadgeColour(label) ==
  IF label # Null /\ includes(toLowerCase(label), RiskLabel.high)
  THEN "red"
  ELSE IF label # Null /\ includes(toLowerCase(label), RiskLabel.medium)
  THEN "amber"
  ELSE "emerald"

\* red, amber and emerald are the colours of High, Medium and Low
RecentBadgeCategory(label) ==
  CASE RecentBadgeColour(label) = "red" -> "High"
    [] RecentBadgeColour(label) = "amber" -> "Medium"
    [] OTHER -> "Low"

InitLabels ==
  /\ PageIdle /\ OverviewIdle /\ ShapIdle /\ UploadIdle
  /\ recent = NoRecent /\ reads = NoReads
  /\ \E l \in RawLabels :
       labels = [classified |-> TRUE, predicted_risk |-> l,
                 aggregator |-> NotYet, predictionsPage |-> NotYet,
                 riskBadge |-> NotYet, recentBadge |-> NotYet]

LabelsUnchanged ==
  UNCHANGED << pageVars, overviewVars, shapVars, uploadVars, recent, reads >>

\* the overview is computed over a history holding the label
AggregatorTallies ==
  /\ labels.classified /\ labels.aggregator = NotYet
  /\ labels' = [labels EXCEPT
                  !.aggregator = AggregatorCategory(labels.predicted_risk)]
  /\ LabelsUnchanged

\* the predictions page is rendered over rows holding the label
PredictionsPageCounts ==
  /\ labels.classified /\ labels.predictionsPage = NotYet
  /\ labels' = [labels EXCEPT
                  !.predictionsPage =
                     PredictionsPageCategory(labels.predicted_risk)]
  /\ LabelsUnchanged

\* a RiskBadge is rendered for the label
RiskBadgeRenders ==
  /\ labels.classified /\ labels.riskBadge = NotYet
  /\ labels' = [labels EXCEPT
                  !.riskBadge = RiskBadge(labels.predicted_risk)]
  /\ LabelsUnchanged

\* the upload page lists a recent prediction holding the label
RecentBadgeRenders ==
  /\ labels.classified /\ labels.recentBadge = NotYet
  /\ labels' = [labels EXCEPT
                  !.recentBadge = RecentBadgeCategory(labels.predicted_risk)]
  /\ LabelsUnchanged

NextLabels ==
  \/ AggregatorTallies
  \/ PredictionsPageCounts
  \/ RiskBadgeRenders
  \/ RecentBadgeRenders

SpecLabels == InitLabels /\ [][NextLabels]_vars

EverySiteClassified ==
  /\ labels.classified
  /\ labels.aggregator # NotYet /\ labels.predictionsPage # NotYet
  /\ labels.riskBadge # NotYet /\ labels.recentBadge # NotYet

\* C30: once the aggregator, the predictions page, RiskBadge and the
\* upload page's recent-predictions badge have each classified a label,
\* all four hold the same category for it.
C30_EverySiteSameCategory ==
  EverySiteClassified =>
    /\ labels.aggregator = labels.predictionsPage
    /\ labels.predictionsPage = labels.riskBadge
    /\ labels.riskBadge = labels.recentBadge

\* the three sites that normalise the label before comparing it agree
NormalisingSitesAgree ==
  EverySiteClassified =>
    /\ labels.aggregator = labels.predictionsPage
    /\ labels.predictionsPage = labels.riskBadge

\* where the recent-predictions badge differs, it shows a colour for a
\* label the other sites call Unknown
RecentBadgeDiffersOnlyOnUnknown ==
  EverySiteClassified /\ labels.recentBadge # labels.riskBadge =>
    labels.riskBadge = "Unknown"

====
